---- MODULE Spec2Model ----
(***************************************************************************)
(* Model of the spatial canvas engine of lupe                              *)
(* (src/components/canvas/Canvas.tsx and the Element component,            *)
(* src/unnamed/part_001): the element store, the selection, the pointer    *)
(* gestures on elements and on the background, the clipboard and the undo  *)
(* stack with its expiry timers.                                           *)
(*                                                                         *)
(* Representation.                                                         *)
(*  - World coordinates are fixed-point numbers with FP steps per unit.    *)
(*  - Zoom is a fixed-point number with ZoomOne steps per 1.0.             *)
(*  - Element ids, cache keys and undo ids are naturals; 0 is undefined.   *)
(*    The key `image-<id>` / `video-<id>` is represented by <id>.          *)
(*  - A JavaScript object that is shared between the store and the undo    *)
(*    stack is tracked through the field obj of a store element: it names  *)
(*    the undo-stack object the store element is identical to (0: none).   *)
(*    The only field the program mutates in place is _undoId, kept in      *)
(*    undoIdOf.                                                            *)
(*  - Timers are kept in firing order; the clock `now` moves to a timer's  *)
(*    deadline when the timer fires.                                       *)
(*  - An await on IndexedDB splits a handler into steps (tasks).           *)
(*                                                                         *)
(*  - The relaxation of the spawn-group layout is computed in the fixed    *)
(*    point of the world coordinates, every quotient rounded to the        *)
(*    nearest step.  Each pair of entries has its own outcome of           *)
(*    Math.random.                                                         *)
(*                                                                         *)
(* SpecGesture starts from a store that holds a media element at a         *)
(* position the layout may have left.                                      *)
(***************************************************************************)
EXTENDS Integers, Sequences, FiniteSets, TLC

\* ---------------------------------------------------------------- bounds
MaxIds == 2          \* element ids the program may generate
MaxUndo == 2         \* undo snapshots the program may push
MaxDowns == 2        \* pointer-down events on elements
MaxOld == 2          \* elements on the canvas before a run
MaxZoomOps == 3      \* camera operations in a run
MaxTimers == 2       \* armed timers when a notification arrives
MaxTasks == 1        \* measurements in flight
Horizon == 600       \* no notification arrives after this time

\* ------------------------------------------------------- program constants
UNDO_TTL_MS == 60000
FP == 100
ZoomOne == 1000
ClickThresholdSq == 16
MinW == 60
MinH == 40
PasteOffsetSingle == 20
PasteOffsetGroup == 30
USER_MOVE_COOLDOWN_MS == 5000
LayoutDelayMs == 80
AnimateMoveMs == 450
LayoutIterations == 32
LayoutMargin == 10
AttractionPerMille == 22
OverlapRatioPct == 10
ClusterMargin == 14
ProximityTenths == 9
GridGap == 24
GridDelayMs == 50

\* the elements a run creates are numbered 1..MaxIds, the elements that were
\* on the canvas before it MaxIds + 1 .. MaxIds + MaxOld
Ids == 1..(MaxIds + MaxOld)
OldIds == (MaxIds + 1)..(MaxIds + MaxOld)
Types == {"image", "video", "text"}

NoUrl == [scheme |-> "none", n |-> 0]
BlobUrl(n) == [scheme |-> "blob", n |-> n]
DataUrl(n) == [scheme |-> "data", n |-> n]

\* world units to fixed point
U(n) == n * FP
\* Math.round on a fixed-point number (half rounds up)
Round(v) == ((v + (FP \div 2)) \div FP) * FP

\* a * b / d for d > 0 and b >= 0, rounded down and rounded to the nearest
\* step, computed without leaving 32 bits
MulDiv(a, b, d) == (a \div d) * b + ((a % d) * b) \div d
MulDivRound(a, b, d) == (a \div d) * b + (2 * ((a % d) * b) + d) \div (2 * d)

Max2(a, b) == IF a >= b THEN a ELSE b
Min2(a, b) == IF a <= b THEN a ELSE b

RECURSIVE SetMax(_)
SetMax(S) == IF S = {} THEN 0
             ELSE LET a == CHOOSE a \in S : TRUE
                  IN Max2(a, SetMax(S \ {a}))

Range(s) == {s[i] : i \in 1..Len(s)}

\* ------------------------------------------------------------------ state
VARIABLES
  elements,           \* Element Store: sequence of CanvasElement
  selectedId,         \* primary selected id (0: null)
  selectedIds,        \* set of selected ids
  isAdditiveKeyDown,  \* Shift / Meta / Control held
  clipboardElements,  \* copied elements
  undoStack,          \* sequence of snapshot objects
  undoIdOf,           \* the _undoId field of each snapshot object
  timers,             \* armed timers, earliest first
  tasks,              \* asynchronous work in flight (duplication, restore)
  blobs,              \* keys present in the durable cache (IndexedDB)
  revoked,            \* blob URLs revoked with URL.revokeObjectURL
  nextId, nextUrl, nextUndo, now,
  finLog,             \* history: finalizeDeletion calls made by expiry timers
  restored,           \* history: pushes that undoDelete restored
  lateFired,          \* history: kinds of timers that fired with no target in the store
  view,               \* ViewState
  isSpace, panning, marquee, marqueeHits,
  gestureBaseZoomRef, \* the zoom when the pinch gesture started
  zoomOps,            \* camera operations handled so far
  gridRef,            \* spawnGridByGroupRef: the grid geometry of each batch
  panRef,             \* panStart and panOrigin
  groupDragRef,       \* anchor id and start positions of the drag group
  comp,               \* per Element component: refs and local state
  ptr,                \* the pointers of the environment
  nDown               \* pointer-down events on elements so far

lifeVars == <<clipboardElements, undoStack, undoIdOf, timers, tasks, blobs,
              revoked, nextId, nextUrl, nextUndo, finLog, restored, lateFired>>
selVars == <<selectedId, selectedIds, isAdditiveKeyDown>>
canvasVars == <<view, isSpace, gestureBaseZoomRef, zoomOps,
               gridRef, panning, marquee, marqueeHits, panRef>>
gestVars == <<groupDragRef, comp, ptr, nDown>>
vars == <<elements, now, lifeVars, selVars, canvasVars, gestVars>>

\* ------------------------------------------------------------- elements
\* CanvasElement (Canvas.tsx type CanvasElement) plus the identity field obj
NewElement(id, type, x, y, w, h, z) ==
  [id |-> id, type |-> type, x |-> x, y |-> y, w |-> w, h |-> h, z |-> z,
   imageUrl |-> NoUrl, videoUrl |-> NoUrl, imageKey |-> 0, videoKey |-> 0,
   isGenerating |-> FALSE, error |-> FALSE,
   userMoved |-> FALSE, lastUserMoveAt |-> 0, animateMove |-> FALSE,
   fontSize |-> 0, obj |-> 0]

\* request groups of the generation collaborator
Groups == {1}
\* spawnGridByGroupRef.current[groupId] before the first spawn of the batch
NoGrid == [set |-> FALSE, colCount |-> 0, itemW |-> 0, itemH |-> 0, left |-> 0, top0 |-> 0]

\* { ...e }: a copy is a new object
Copy(e) == [e EXCEPT !.obj = 0]
\* the fields of an element without its identity
Data(e) == [e EXCEPT !.obj = 0]
\* array.map((e) => ({ ...e }))
Copies(s) == [i \in 1..Len(s) |-> Copy(s[i])]

StoreIds(els) == {els[i].id : i \in 1..Len(els)}
HasId(els, id) == \E i \in 1..Len(els) : els[i].id = id
\* elements.find((el) => el.id === id)
Find(els, id) == els[CHOOSE i \in 1..Len(els) :
                       /\ els[i].id = id
                       /\ \A j \in 1..(i - 1) : els[j].id # id]
FilterIds(els, S) == LET T(e) == e.id \in S IN SelectSeq(els, T)
WithoutIds(els, S) == LET T(e) == e.id \notin S IN SelectSeq(els, T)

\* Math.max(0, ...elements.map((e) => e.z ?? 0))
TopZOf(els) == SetMax({els[i].z : i \in 1..Len(els)})

\* selectedIds.size > 0 ? Array.from(selectedIds) : (selectedId ? [selectedId] : [])
IdsArray == IF selectedIds # {} THEN selectedIds
            ELSE IF selectedId # 0 THEN {selectedId} ELSE {}

\* ---------------------------------------------------- Element component
InitComp == [draggingRef |-> FALSE, isDragging |-> FALSE,
             startPointer |-> [x |-> 0, y |-> 0],
             startPos |-> [x |-> 0, y |-> 0],
             moved |-> FALSE, wasSelected |-> FALSE, isEditing |-> FALSE,
             resizingRef |-> FALSE, resizeDir |-> "none",
             startSize |-> [w |-> 0, h |-> 0], startFontSize |-> 32]

\* a component lives while its element is in the store
Mounted(cmp, els) == [i \in Ids |-> IF HasId(els, i) THEN cmp[i] ELSE InitComp]

NoPtr == [down |-> FALSE, cap |-> "none", id |-> 0, x |-> 0, y |-> 0]
Pointers == {1, 2}
\* a pointer whose capturing node left the document has no capture left
Captured(pt, els) ==
  [p \in Pointers |->
     IF pt[p].cap \in {"el", "handle"} /\ ~HasId(els, pt[p].id)
     THEN [pt[p] EXCEPT !.cap = "none", !.id = 0] ELSE pt[p]]

\* document.activeElement is an input, a textarea or content-editable
IsTextInput == \E i \in Ids : comp[i].isEditing

\* ------------------------------------------------------------- geometry
Viewport == [w |-> 1000, h |-> 800]
\* toCanvasCoords: (screen - pan) / zoom, in fixed point
ToCanvasX(sx) == MulDiv(sx - view.pan.x, FP * ZoomOne, view.zoom)
ToCanvasY(sy) == MulDiv(sy - view.pan.y, FP * ZoomOne, view.zoom)
\* getViewCenterCanvas
ViewCenter == [x |-> ToCanvasX(Viewport.w \div 2), y |-> ToCanvasY(Viewport.h \div 2)]

\* ------------------------------------------------------------ undo stack
\* the group wrapper built by multi-delete (id `group-<now>`) and by
\* multi-paste (id `paste-group-<now>`): ids below zero
GroupWrapperId(t) == 0 - (2 * t)
PasteWrapperId(t) == 0 - (2 * t + 1)
Wrapper(id, group) ==
  NewElement(id, "image",
             IF Len(group) > 0 THEN group[1].x ELSE 0,
             IF Len(group) > 0 THEN group[1].y ELSE 0,
             IF Len(group) > 0 THEN group[1].w ELSE U(1),
             IF Len(group) > 0 THEN group[1].h ELSE U(1), 0)

\* a snapshot object on the stack: obj is its identity, wrapper tells a group
\* wrapper (_group set); history: pushedAs is the undo id it was pushed under,
\* before the store a multi-delete found
Snapshot(obj, uid, wrapper, el, group, before) ==
  [obj |-> obj, pushedAs |-> uid, wrapper |-> wrapper, el |-> el, group |-> group,
   before |-> before]

\* timers are kept in firing order: earlier deadline first, then older first
InsertTimer(ts, t) ==
  LET k == Cardinality({i \in 1..Len(ts) : ts[i].at <= t.at})
  IN SubSeq(ts, 1, k) \o <<t>> \o SubSeq(ts, k + 1, Len(ts))

\* clearUndoTimerById
ClearUndoTimerById(ts, undoId) ==
  LET T(t) == ~(t.kind = "undo" /\ t.undoId = undoId) IN SelectSeq(ts, T)

\* scheduleUndoExpiry: the timer keeps undoId and the snapshot object
UndoTimer(undoId, snap) ==
  [kind |-> "undo", at |-> now + UNDO_TTL_MS, undoId |-> undoId, snap |-> snap]

\* scheduleSpawnGroupLayout(newId): the timer it arms
LayoutTimer(newId) == [kind |-> "layout", at |-> now + LayoutDelayMs, id |-> newId]
\* the timer a layout pass arms at time t to clear the animation hint
ClearAnimTimer(t, ids) == [kind |-> "clearAnim", at |-> t + AnimateMoveMs, ids |-> ids]
\* scheduleSpawnGroupLayout for each element of a list, in order
RECURSIVE ScheduleLayouts(_, _, _)
ScheduleLayouts(ts, els, k) ==
  IF k > Len(els) THEN ts
  ELSE ScheduleLayouts(InsertTimer(ts, LayoutTimer(els[k].id)), els, k + 1)

\* finalizeDeletion: the elements whose media it releases
FinalizedElements(snap) == IF snap.wrapper THEN Range(snap.group) ELSE {snap.el}
\* ... the blob: URLs it revokes
FinalizedUrls(snap) ==
  {u \in {e.imageUrl : e \in FinalizedElements(snap)}
         \cup {e.videoUrl : e \in FinalizedElements(snap)} : u.scheme = "blob"}
\* ... the cache keys it deletes
FinalizedKeys(snap) ==
  ({e.imageKey : e \in FinalizedElements(snap)}
     \cup {e.videoKey : e \in FinalizedElements(snap)}) \ {0}

\* ---------------------------------------------------------------- spawn
\* the size of an uploaded file after scaling: an icon
FileDims == {[w |-> 4, h |-> 4]}

\* addFiles with one image or video file; putOk: the blob reached IndexedDB
AddFiles(type, dims, putOk) ==
  /\ nextId <= MaxIds
  /\ LET id == nextId
         c == ViewCenter
         base == NewElement(id, type, Round(c.x - U(dims.w) \div 2),
                            Round(c.y - U(dims.h) \div 2), U(dims.w), U(dims.h), now)
         el == IF type = "image"
               THEN [base EXCEPT !.imageUrl = IF putOk THEN BlobUrl(nextUrl)
                                              ELSE DataUrl(nextUrl),
                                 !.imageKey = IF putOk THEN id ELSE 0]
               ELSE [base EXCEPT !.videoUrl = BlobUrl(nextUrl),
                                 !.videoKey = IF putOk THEN id ELSE 0]
     IN /\ elements' = Append(elements, el)
        /\ blobs' = IF putOk THEN blobs \cup {id} ELSE blobs
        /\ nextId' = nextId + 1
        /\ nextUrl' = nextUrl + 1
        /\ timers' = InsertTimer(timers, LayoutTimer(id))
  /\ UNCHANGED <<now, clipboardElements, undoStack, undoIdOf, tasks,
                 revoked, nextUndo, finLog, lateFired, restored, selVars, canvasVars, gestVars>>

\* Controls.onAddText; its zero-delay timer dispatches lupe:focus-text, the new
\* Element focuses its text box and onFocus starts editing
AddText ==
  /\ nextId <= MaxIds
  /\ LET id == nextId
         c == ViewCenter
         el == [NewElement(id, "text", Round(c.x - U(400) \div 2),
                           Round(c.y - U(160) \div 2), U(400), U(160), now)
                  EXCEPT !.fontSize = 32]
     IN /\ elements' = Append(elements, el)
        /\ selectedId' = id
        /\ selectedIds' = {id}
        /\ nextId' = nextId + 1
        /\ comp' = [comp EXCEPT ![id] = [@ EXCEPT !.isEditing = TRUE]]
  /\ UNCHANGED <<now, clipboardElements, undoStack, undoIdOf, timers, tasks, blobs,
                 revoked, nextUrl, nextUndo, finLog, lateFired, restored, isAdditiveKeyDown,
                 canvasVars, groupDragRef, ptr, nDown>>

\* ------------------------------------------------------- keyboard: modifiers
KeyDownAdditive ==
  /\ ~isAdditiveKeyDown
  /\ isAdditiveKeyDown' = TRUE
  /\ UNCHANGED <<elements, now, lifeVars, selectedId, selectedIds, canvasVars, gestVars>>

KeyUpAdditive ==
  /\ isAdditiveKeyDown
  /\ isAdditiveKeyDown' = FALSE
  /\ UNCHANGED <<elements, now, lifeVars, selectedId, selectedIds, canvasVars, gestVars>>

\* ------------------------------------------------- keyboard: Delete / Backspace
\* multi-delete: one group snapshot for all selected elements
DeleteMulti ==
  /\ ~IsTextInput
  /\ Cardinality(IdsArray) > 1
  /\ nextUndo <= MaxUndo
  /\ LET ids == IdsArray
         group == Copies(FilterIds(elements, ids))
         uid == nextUndo
         snap == Snapshot(uid, uid, TRUE, Wrapper(GroupWrapperId(now), group), group,
                          elements)
     IN /\ undoStack' = Append(undoStack, snap)
        /\ undoIdOf' = [undoIdOf EXCEPT ![uid] = uid]
        /\ timers' = InsertTimer(timers, UndoTimer(uid, snap))
        /\ nextUndo' = nextUndo + 1
        /\ elements' = WithoutIds(elements, ids)
        /\ comp' = Mounted(comp, elements')
        /\ ptr' = Captured(ptr, elements')
  /\ selectedIds' = {}
  /\ selectedId' = 0
  /\ UNCHANGED <<now, clipboardElements, tasks, blobs, revoked, nextId, nextUrl,
                 finLog, lateFired, restored, isAdditiveKeyDown, canvasVars, groupDragRef, nDown>>

\* single delete: the element object itself becomes the snapshot
DeleteSingle ==
  /\ ~IsTextInput
  /\ Cardinality(IdsArray) = 1
  /\ nextUndo <= MaxUndo
  /\ \E id \in IdsArray :
       /\ HasId(elements, id)
       /\ LET toDelete == Find(elements, id)
              uid == nextUndo
              obj == IF toDelete.obj # 0 THEN toDelete.obj ELSE uid
              snap == Snapshot(obj, uid, FALSE, Data(toDelete), <<>>, <<>>)
          IN /\ undoStack' = Append(undoStack, snap)
             /\ undoIdOf' = [undoIdOf EXCEPT ![obj] = uid]
             /\ timers' = InsertTimer(timers, UndoTimer(uid, snap))
             /\ nextUndo' = nextUndo + 1
             /\ elements' = WithoutIds(elements, {id})
             /\ comp' = Mounted(comp, elements')
             /\ ptr' = Captured(ptr, elements')
  /\ selectedId' = 0
  /\ selectedIds' = {}
  /\ UNCHANGED <<now, clipboardElements, tasks, blobs, revoked, nextId, nextUrl,
                 finLog, lateFired, restored, isAdditiveKeyDown, canvasVars, groupDragRef, nDown>>

\* ------------------------------------------------------- keyboard: Ctrl+C
ClipboardOf(e) ==
  [Copy(e) EXCEPT !.id = 0, !.z = 0, !.userMoved = FALSE,
                  !.lastUserMoveAt = 0, !.animateMove = FALSE]

\* Control or Meta is held, so its own keydown was handled before
CopyKey ==
  /\ isAdditiveKeyDown
  /\ ~IsTextInput
  /\ IdsArray # {}
  /\ LET selectedElements == FilterIds(elements, IdsArray)
     IN clipboardElements' = [i \in 1..Len(selectedElements) |->
                                 ClipboardOf(selectedElements[i])]
  /\ UNCHANGED <<elements, now, undoStack, undoIdOf, timers, tasks, blobs, revoked,
                 nextId, nextUrl, nextUndo, finLog, lateFired, restored, selVars, canvasVars,
                 gestVars>>

\* ------------------------------------------------------- keyboard: Ctrl+V
SeqMinX(s) == CHOOSE m \in {s[i].x : i \in 1..Len(s)} : \A i \in 1..Len(s) : m <= s[i].x
SeqMinY(s) == CHOOSE m \in {s[i].y : i \in 1..Len(s)} : \A i \in 1..Len(s) : m <= s[i].y

\* a paste that shifts every entry by the single-element offset
PastedShifted(i) ==
  LET original == clipboardElements[i]
  IN [Copy(original) EXCEPT
        !.id = nextId + (i - 1),
        !.x = original.x + U(PasteOffsetSingle),
        !.y = original.y + U(PasteOffsetSingle),
        !.z = now + (i - 1)]

\* the element pasted for clipboard entry i
Pasted(i) ==
  LET n == Len(clipboardElements)
      original == clipboardElements[i]
  IN [Copy(original) EXCEPT
        !.id = nextId + (i - 1),
        !.x = IF n = 1 THEN original.x + U(PasteOffsetSingle)
              ELSE original.x - SeqMinX(clipboardElements) + U(PasteOffsetGroup),
        !.y = IF n = 1 THEN original.y + U(PasteOffsetSingle)
              ELSE original.y - SeqMinY(clipboardElements) + U(PasteOffsetGroup),
        !.z = now + (i - 1)]

\* handleAssetDuplication awaits the cache for these elements only
NeedsBlob(e) == (e.type = "image" /\ e.imageKey # 0) \/ (e.type = "video" /\ e.videoKey # 0)
\* the first index from `from` on whose element needs the cache (Len + 1: none)
NextAwait(items, from) ==
  IF \E j \in from..Len(items) : NeedsBlob(items[j])
  THEN CHOOSE j \in from..Len(items) :
         /\ NeedsBlob(items[j])
         /\ \A k \in from..(j - 1) : ~NeedsBlob(items[k])
  ELSE Len(items) + 1

\* the completion of handleAssetDuplication:
\* setElements((prev) => [...prev.filter(not new), ...updatedElements])
DupResult(els, newIds, updatedElements) == WithoutIds(els, newIds) \o updatedElements

PasteKey ==
  /\ isAdditiveKeyDown
  /\ ~IsTextInput
  /\ Len(clipboardElements) > 0
  /\ nextId + Len(clipboardElements) - 1 <= MaxIds
  /\ nextUndo <= MaxUndo
  /\ LET n == Len(clipboardElements)
         uid == nextUndo
         fresh == [i \in 1..n |-> Pasted(i)]
         \* a single pasted element is itself the snapshot object
         newElements == IF n = 1 THEN <<[fresh[1] EXCEPT !.obj = uid]>> ELSE fresh
         newIds == {newElements[i].id : i \in 1..n}
         snap == IF n = 1
                 THEN Snapshot(uid, uid, FALSE, Data(newElements[1]), <<>>, <<>>)
                 ELSE Snapshot(uid, uid, TRUE,
                               Wrapper(PasteWrapperId(now), newElements),
                               Copies(newElements), <<>>)
         first == NextAwait(newElements, 1)
         added == elements \o newElements
     IN /\ elements' = IF first > n THEN DupResult(added, newIds, newElements) ELSE added
        /\ tasks' = IF first > n THEN tasks
                    ELSE Append(tasks, [kind |-> "dup", newIds |-> newIds,
                                        items |-> newElements, i |-> first,
                                        snap |-> snap])
        /\ undoStack' = Append(undoStack, snap)
        /\ undoIdOf' = [undoIdOf EXCEPT ![uid] = uid]
        /\ timers' = ScheduleLayouts(InsertTimer(timers, UndoTimer(uid, snap)),
                                     newElements, 1)
        /\ nextUndo' = nextUndo + 1
        /\ nextId' = nextId + n
        /\ selectedId' = IF n = 1 THEN newElements[1].id ELSE 0
        /\ selectedIds' = IF n = 1 THEN {} ELSE newIds
  /\ UNCHANGED <<now, clipboardElements, blobs, revoked, nextUrl, finLog, lateFired, restored,
                 isAdditiveKeyDown, canvasVars, gestVars>>

RemoveAt(s, k) == SubSeq(s, 1, k - 1) \o SubSeq(s, k + 1, Len(s))

\* handleAssetDuplication resumes for one element: getBlob, then putBlob under
\* the key of the pasted element; putOk: putBlob succeeded
DupStep(k, putOk) ==
  /\ k \in 1..Len(tasks)
  /\ tasks[k].kind = "dup"
  /\ LET t == tasks[k]
         element == t.items[t.i]
         key == IF element.type = "image" THEN element.imageKey ELSE element.videoKey
         dup == key \in blobs /\ putOk
         updated == IF ~dup THEN element
                    ELSE IF element.type = "image"
                         THEN [Copy(element) EXCEPT !.imageKey = element.id]
                         ELSE [Copy(element) EXCEPT !.videoKey = element.id]
         updatedElements == [t.items EXCEPT ![t.i] = updated]
         next == NextAwait(updatedElements, t.i + 1)
     IN /\ key \in blobs \/ putOk
        /\ blobs' = IF dup THEN blobs \cup {element.id} ELSE blobs
        /\ IF next > Len(updatedElements)
           THEN /\ elements' = DupResult(elements, t.newIds, updatedElements)
                /\ tasks' = RemoveAt(tasks, k)
           ELSE /\ elements' = elements
                /\ tasks' = [tasks EXCEPT ![k] = [t EXCEPT !.items = updatedElements,
                                                           !.i = next]]
  /\ comp' = Mounted(comp, elements')
  /\ UNCHANGED <<now, clipboardElements, undoStack, undoIdOf, timers, revoked, nextId,
                 nextUrl, nextUndo, finLog, lateFired, restored, selVars, canvasVars,
                 groupDragRef, ptr, nDown>>

\* ------------------------------------------------------------ undoDelete
\* the elements undoDelete restores: the group, or the snapshot itself
RestoreList(snap) ==
  IF snap.wrapper /\ Len(snap.group) > 0 THEN Copies(snap.group)
  ELSE <<Copy(snap.el)>>

\* setElements((prev) => [...prev, ...restored])
Restore(els, restoredEls) == els \o restoredEls

UndoDelete ==
  /\ Len(undoStack) > 0
  /\ LET snapshot == undoStack[Len(undoStack)]
         undoId == undoIdOf[snapshot.obj]
         items == RestoreList(snapshot)
         first == NextAwait(items, 1)
     IN /\ timers' = ClearUndoTimerById(timers, undoId)
        /\ undoStack' = SubSeq(undoStack, 1, Len(undoStack) - 1)
        /\ restored' = restored \cup {snapshot.pushedAs}
        /\ IF first > Len(items)
           THEN /\ elements' = Restore(elements, items)
                /\ tasks' = tasks
           ELSE /\ elements' = elements
                /\ tasks' = Append(tasks, [kind |-> "restore", newIds |-> {},
                                           items |-> items, i |-> first,
                                           snap |-> snapshot])
  /\ UNCHANGED <<now, clipboardElements, undoIdOf, blobs, revoked, nextId, nextUrl,
                 nextUndo, finLog, lateFired, selVars, canvasVars, gestVars>>

\* undoDelete resumes after getBlob for one element: a blob that is still in
\* the cache gives the element a new object URL
RestoreStep(k) ==
  /\ k \in 1..Len(tasks)
  /\ tasks[k].kind = "restore"
  /\ LET t == tasks[k]
         el == t.items[t.i]
         key == IF el.type = "image" THEN el.imageKey ELSE el.videoKey
         found == key \in blobs
         resolved == IF ~found THEN el
                     ELSE IF el.type = "image"
                          THEN [el EXCEPT !.imageUrl = BlobUrl(nextUrl)]
                          ELSE [el EXCEPT !.videoUrl = BlobUrl(nextUrl)]
         items == [t.items EXCEPT ![t.i] = resolved]
         next == NextAwait(items, t.i + 1)
     IN /\ nextUrl' = IF found THEN nextUrl + 1 ELSE nextUrl
        /\ IF next > Len(items)
           THEN /\ elements' = Restore(elements, items)
                /\ tasks' = RemoveAt(tasks, k)
           ELSE /\ elements' = elements
                /\ tasks' = [tasks EXCEPT ![k] = [t EXCEPT !.items = items, !.i = next]]
  /\ UNCHANGED <<now, clipboardElements, undoStack, undoIdOf, timers, blobs, revoked,
                 nextId, nextUndo, finLog, lateFired, restored, selVars, canvasVars, gestVars>>

\* --------------------------------------------------------- expiry timer
\* setUndoStack((prev) => prev.filter((s) => s._undoId !== undoId))
DropExpired(stack, undoId) ==
  LET T(s) == undoIdOf[s.obj] # undoId IN SelectSeq(stack, T)

\* the callback scheduleUndoExpiry armed, when it is the next timer to fire
ExpireUndo ==
  /\ Len(timers) > 0
  /\ timers[1].kind = "undo"
  /\ LET t == timers[1]
     IN /\ now' = Max2(now, t.at)
        /\ revoked' = revoked \cup FinalizedUrls(t.snap)
        /\ blobs' = blobs \ FinalizedKeys(t.snap)
        /\ finLog' = Append(finLog, [undoId |-> t.undoId, obj |-> t.snap.obj])
        /\ undoStack' = DropExpired(undoStack, t.undoId)
        /\ timers' = ClearUndoTimerById(Tail(timers), t.undoId)
  /\ UNCHANGED <<elements, clipboardElements, undoIdOf, tasks, nextId, nextUrl,
                 nextUndo, restored, lateFired, selVars, canvasVars, gestVars>>

\* ------------------------------------------------------------- selection
\* the `selected` prop of an Element
Selected(id) ==
  \/ id = selectedId
  \/ id \in selectedIds
  \/ (marquee.isSelecting /\ id \in marqueeHits)

\* onSelect: the primary id it sets
OnSelectPrimary(id) == id
\* onSelect: the set it leaves
OnSelectSet(id) ==
  IF isAdditiveKeyDown
  THEN IF id \in selectedIds THEN selectedIds \ {id} ELSE selectedIds \cup {id}
  ELSE {id}

\* ------------------------------------------------------------ drag group
NoGroupDrag == [anchorId |-> 0, starts |-> [i \in {} |-> 0]]

\* the position the last store element with this id has
LastPos(els, id) ==
  LET k == CHOOSE k \in 1..Len(els) :
             els[k].id = id /\ \A j \in (k + 1)..Len(els) : els[j].id # id
  IN [x |-> els[k].x, y |-> els[k].y]

\* onDragStart: the drag group
DragGroup(id) == IF id \in IdsArray THEN IdsArray ELSE {id}
\* onDragStart: the start-position snapshot
DragStarts(id) ==
  [i \in DragGroup(id) \cap StoreIds(elements) |-> LastPos(elements, i)]

\* onDragStart: bring the group to front, keeping its relative store order
BumpZ(els, group, topZ) ==
  [k \in 1..Len(els) |->
     IF els[k].id \in group
     THEN [Copy(els[k]) EXCEPT
             !.z = topZ + Cardinality({j \in 1..(k - 1) : els[j].id \in group})]
     ELSE els[k]]

\* onMove
OnMove(els, id, next) ==
  LET group == groupDragRef
      keys == DOMAIN group.starts
  IN IF group.anchorId = id /\ Cardinality(keys) > 1
     THEN LET startAnchor == IF id \in keys THEN group.starts[id] ELSE next
              dx == next.x - startAnchor.x
              dy == next.y - startAnchor.y
          IN [k \in 1..Len(els) |->
                IF els[k].id \in keys
                THEN [Copy(els[k]) EXCEPT !.x = Round(group.starts[els[k].id].x + dx),
                                          !.y = Round(group.starts[els[k].id].y + dy)]
                ELSE els[k]]
     ELSE [k \in 1..Len(els) |->
             IF els[k].id = id THEN [Copy(els[k]) EXCEPT !.x = next.x, !.y = next.y]
             ELSE els[k]]

\* onDragEnd: the elements it marks as moved by the user
DragEndMarks(id) ==
  LET keys == DOMAIN groupDragRef.starts
  IN IF groupDragRef.anchorId = id /\ Cardinality(keys) > 0 THEN keys ELSE {id}

OnDragEnd(els, id, when) ==
  [k \in 1..Len(els) |->
     IF els[k].id \in DragEndMarks(id)
     THEN [Copy(els[k]) EXCEPT !.userMoved = TRUE, !.lastUserMoveAt = when]
     ELSE els[k]]

\* screen delta to world delta: dScreen / Math.max(zoom, 0.0001)
\* (one zoom step is the smallest zoom the fixed point has)
WorldDelta(dScreen) == (dScreen * FP * ZoomOne) \div Max2(view.zoom, 1)

\* Element.onPointerMove / handleWindowPointerMove: the position handed to onMove
DragNext(c, x, y) ==
  [x |-> Round(c.startPos.x + WorldDelta(x - c.startPointer.x)),
   y |-> Round(c.startPos.y + WorldDelta(y - c.startPointer.y))]

\* Element.onPointerMove: the click threshold
BeyondClick(c, x, y) ==
  LET dxScreen == x - c.startPointer.x
      dyScreen == y - c.startPointer.y
  IN dxScreen * dxScreen + dyScreen * dyScreen > ClickThresholdSq

\* ---------------------------------------------------------------- resize
Dirs == {"n", "s", "e", "w", "ne", "nw", "se", "sw"}
IsCorner(dir) == dir \in {"ne", "nw", "se", "sw"}
Has(dir, ch) ==
  CASE ch = "n" -> dir \in {"n", "ne", "nw"}
    [] ch = "s" -> dir \in {"s", "se", "sw"}
    [] ch = "e" -> dir \in {"e", "ne", "se"}
    [] ch = "w" -> dir \in {"w", "nw", "sw"}

\* the corner branch of handleMove: the diagonal delta
DeltaDiag(dir, dx, dy) ==
  CASE dir = "se" -> (dx + dy) \div 2
    [] dir = "ne" -> (dx - dy) \div 2
    [] dir = "sw" -> (dy - dx) \div 2
    [] dir = "nw" -> (0 - (dx + dy)) \div 2

\* a corner drag that sizes the two axes independently, as an edge drag does
ResizeNextFree(c, type, x, y) ==
  LET dx == WorldDelta(x - c.startPointer.x)
      dy == WorldDelta(y - c.startPointer.y)
      sx == IF Has(c.resizeDir, "e") THEN dx ELSE IF Has(c.resizeDir, "w") THEN 0 - dx ELSE 0
      sy == IF Has(c.resizeDir, "s") THEN dy ELSE IF Has(c.resizeDir, "n") THEN 0 - dy ELSE 0
      newW == Max2(U(MinW), Round(c.startSize.w + sx))
      newH == Max2(U(MinH), Round(c.startSize.h + sy))
  IN [x |-> IF Has(c.resizeDir, "w") THEN c.startPos.x - (newW - c.startSize.w)
            ELSE c.startPos.x,
      y |-> IF Has(c.resizeDir, "n") THEN c.startPos.y - (newH - c.startSize.h)
            ELSE c.startPos.y,
      w |-> newW, h |-> newH, fontSize |-> 0]

\* handleMove of the resize effect: what it hands to onResize
\* (fontSize 0: undefined)
ResizeNext(c, type, x, y) ==
  LET dir == c.resizeDir
      dx == WorldDelta(x - c.startPointer.x)
      dy == WorldDelta(y - c.startPointer.y)
      w0 == c.startSize.w
      h0 == c.startSize.h
      minDelta == Max2(U(MinW) - w0, U(MinH) - h0)
      clamped == Max2(DeltaDiag(dir, dx, dy), minDelta)
      newW == IF IsCorner(dir) THEN Max2(U(MinW), Round(w0 + clamped))
              ELSE IF Has(dir, "e") THEN Max2(U(MinW), Round(w0 + dx))
              ELSE IF Has(dir, "w") THEN Max2(U(MinW), Round(w0 - dx))
              ELSE w0
      newH == IF IsCorner(dir) THEN Max2(U(MinH), Round(h0 + clamped))
              ELSE IF Has(dir, "s") THEN Max2(U(MinH), Round(h0 + dy))
              ELSE IF Has(dir, "n") THEN Max2(U(MinH), Round(h0 - dy))
              ELSE h0
      newX == IF IsCorner(dir)
              THEN IF dir \in {"sw", "nw"} THEN Round(c.startPos.x - (newW - w0))
                   ELSE c.startPos.x
              ELSE IF Has(dir, "w") THEN Round(c.startPos.x + Min2(w0 - U(MinW), dx))
              ELSE c.startPos.x
      newY == IF IsCorner(dir)
              THEN IF dir \in {"ne", "nw"} THEN Round(c.startPos.y - (newH - h0))
                   ELSE c.startPos.y
              ELSE IF Has(dir, "n") THEN Round(c.startPos.y + Min2(h0 - U(MinH), dy))
              ELSE c.startPos.y
      startFont == IF c.startFontSize = 0 THEN 32 ELSE c.startFontSize
      scaled == (2 * startFont * newH + Max2(FP, h0)) \div (2 * Max2(FP, h0))
  IN [x |-> newX, y |-> newY, w |-> newW, h |-> newH,
      fontSize |-> IF type = "text" /\ IsCorner(dir) THEN Max2(6, scaled) ELSE 0]

\* onResize
OnResize(els, id, next) ==
  [k \in 1..Len(els) |->
     IF els[k].id # id THEN els[k]
     ELSE [Copy(els[k]) EXCEPT
             !.x = next.x, !.y = next.y, !.w = next.w, !.h = next.h,
             !.fontSize = IF els[k].type = "text" /\ next.fontSize # 0
                          THEN next.fontSize ELSE @]]

\* ------------------------------------------------- window-level listeners
\* ids in render order: z ascending, store order among equals
RECURSIVE RenderOrder(_, _)
RenderOrder(els, done) ==
  LET left == {k \in 1..Len(els) : els[k].id \notin done}
  IN IF left = {} THEN <<>>
     ELSE LET k == CHOOSE k \in left :
                     \A j \in left : els[k].z < els[j].z \/ (els[k].z = els[j].z /\ k <= j)
          IN <<els[k].id>> \o RenderOrder(els, done \cup {els[k].id})

\* window pointermove: every dragging component moves its element, every
\* resizing component resizes its element, component by component
RECURSIVE WindowMove(_, _, _, _)
WindowMove(order, els, x, y) ==
  IF order = <<>> THEN els
  ELSE LET id == Head(order)
           c == IF id \in Ids THEN comp[id] ELSE InitComp
           moved == IF c.isDragging THEN OnMove(els, id, DragNext(c, x, y)) ELSE els
           type == IF HasId(moved, id) THEN Find(moved, id).type ELSE "image"
           sized == IF c.resizingRef /\ c.resizeDir # "none"
                    THEN OnResize(moved, id, ResizeNext(c, type, x, y)) ELSE moved
       IN WindowMove(Tail(order), sized, x, y)

\* window pointerup: handleWindowPointerUp and the resize effect's handleUp
WindowUp(cmp) ==
  [i \in Ids |-> [cmp[i] EXCEPT !.draggingRef = FALSE, !.isDragging = FALSE,
                                !.resizingRef = FALSE, !.resizeDir = "none"]]

\* ---------------------------------------------------------------- camera
WORLD_MIN == 0 - 40000
WORLD_MAX == 40000

\* the numbers of the camera that are not finite: values outside the range
\* of every pan, zoom and delta of the model
PosInf == 2000000000
NegInf == 0 - PosInf
NaN == PosInf + 1
Finite(v) == v # NaN /\ v # PosInf /\ v # NegInf

\* a clamp that takes the pan for the world position: no division by zoom
ClampAxisUnscaled(pan, zoom, size) ==
  LET viewportWorld == (size * FP * ZoomOne) \div Max2(zoom, 1)
      maxLeft == U(WORLD_MAX) - viewportWorld
      clamped == IF viewportWorld >= U(WORLD_MAX - WORLD_MIN)
                 THEN (U(WORLD_MIN) + U(WORLD_MAX) - viewportWorld) \div 2
                 ELSE Min2(Max2((0 - pan) * FP, U(WORLD_MIN)), maxLeft)
  IN MulDiv(0 - clamped, zoom, FP * ZoomOne)

\* clampPan, one axis: pan in screen pixels, size the container's extent
ClampAxis(pan, zoom, size) ==
  IF zoom = NaN THEN NaN
  ELSE
    LET z == Max2(zoom, 1)
        viewportWorld == (size * FP * ZoomOne) \div z
        world == U(WORLD_MAX - WORLD_MIN)
        maxLeft == U(WORLD_MAX) - viewportWorld
    IN IF viewportWorld >= world
       THEN MulDiv(0 - ((U(WORLD_MIN) + U(WORLD_MAX) - viewportWorld) \div 2),
                   zoom, FP * ZoomOne)
       ELSE IF pan = NaN THEN NaN
       ELSE LET desired == IF pan = PosInf THEN NegInf
                           ELSE IF pan = NegInf THEN PosInf
                           ELSE MulDiv(0 - pan, FP * ZoomOne, zoom)
                clamped == Min2(Max2(desired, U(WORLD_MIN)), maxLeft)
            IN MulDiv(0 - clamped, zoom, FP * ZoomOne)

ClampPan(pan, zoom) ==
  [x |-> ClampAxis(pan.x, zoom, Viewport.w), y |-> ClampAxis(pan.y, zoom, Viewport.h)]

MIN_ZOOM == 50            \* 0.05
MAX_ZOOM == 8000          \* 8
ZoomFloor == 5            \* 0.005
KeyZoomPct == 110         \* Ctrl/Cmd with + or -: a factor of 1.1
GesturePct == 55          \* SAFARI_GESTURE_SENSITIVITY

getDynamicMinZoom ==
  LET worldWidth == WORLD_MAX - WORLD_MIN
      worldHeight == WORLD_MAX - WORLD_MIN
      fitX == (Viewport.w * ZoomOne) \div Max2(worldWidth, 1)
      fitY == (Viewport.h * ZoomOne) \div Max2(worldHeight, 1)
      fitMin == Min2(fitX, fitY)
  IN Max2(Min2(MIN_ZOOM, fitMin), ZoomFloor)

\* Math.max(minZoom, Math.min(MAX_ZOOM, nextZoom)): NaN stays NaN
ClampZoom(nextZoom) ==
  IF nextZoom = NaN THEN NaN
  ELSE Max2(getDynamicMinZoom, Min2(MAX_ZOOM, nextZoom))

\* a zoom about the container's corner, whatever the origin is
ZoomedPanAboutCorner(c, pan, newZoom, prevZoom) ==
  IF newZoom = NaN \/ prevZoom = NaN \/ pan = NaN THEN NaN
  ELSE 0 - MulDivRound(0 - pan, newZoom, prevZoom)

\* c - (c - pan) * ratio with ratio = newZoom / prev.zoom
ZoomedPan(c, pan, newZoom, prevZoom) ==
  IF newZoom = NaN \/ prevZoom = NaN \/ pan = NaN THEN NaN
  ELSE c - MulDivRound(c - pan, newZoom, prevZoom)

\* applyZoom with the origin (cx, cy) relative to the container
applyZoom(prev, nextZoom, cx, cy) ==
  LET newZoom == ClampZoom(nextZoom)
      nextPan == [x |-> ZoomedPan(cx, prev.pan.x, newZoom, prev.zoom),
                  y |-> ZoomedPan(cy, prev.pan.y, newZoom, prev.zoom)]
  IN [zoom |-> newZoom, pan |-> ClampPan(nextPan, newZoom)]

\* zoom * factor for a positive zoom and a factor in thousandths
Scaled(zoom, factor) ==
  IF zoom = NaN \/ factor = NaN THEN NaN
  ELSE IF ~Finite(factor) THEN factor
  ELSE MulDivRound(zoom, factor, ZoomOne)

\* Math.exp(-deltaY * WHEEL_ZOOM_SENSITIVITY) in thousandths
WheelFactor(deltaY) ==
  CASE deltaY = NaN -> NaN
    [] deltaY = PosInf -> 0
    [] deltaY = NegInf -> PosInf
    [] deltaY = 0 - 100 -> 2718
    [] deltaY = 400 -> 18
    [] OTHER -> ZoomOne

\* a - b of two numbers, b possibly not finite
Minus(a, b) ==
  IF a = NaN \/ b = NaN THEN NaN
  ELSE IF b = PosInf THEN NegInf
  ELSE IF b = NegInf THEN PosInf
  ELSE a - b

\* onWheel with Control or Meta: zoom about the pointer
WheelZoom(deltaY, x, y) ==
  /\ zoomOps < MaxZoomOps
  /\ view' = applyZoom(view, Scaled(view.zoom, WheelFactor(deltaY)), x, y)
  /\ zoomOps' = zoomOps + 1
  /\ UNCHANGED <<elements, now, lifeVars, selVars, isSpace, gestureBaseZoomRef, gridRef,
                 panning, marquee, marqueeHits, panRef, gestVars>>

\* onWheel without a modifier: pan by the wheel's delta
WheelPan(deltaX, deltaY) ==
  /\ zoomOps < MaxZoomOps
  /\ view' = [view EXCEPT !.pan = ClampPan([x |-> Minus(view.pan.x, deltaX),
                                            y |-> Minus(view.pan.y, deltaY)],
                                           view.zoom)]
  /\ zoomOps' = zoomOps + 1
  /\ UNCHANGED <<elements, now, lifeVars, selVars, isSpace, gestureBaseZoomRef, gridRef,
                 panning, marquee, marqueeHits, panRef, gestVars>>

\* Ctrl/Cmd with + or = (zoomIn) and with - : zoom about the centre
KeyZoom(zoomIn) ==
  /\ isAdditiveKeyDown
  /\ zoomOps < MaxZoomOps
  /\ LET nextZoom == IF view.zoom = NaN THEN NaN
                     ELSE IF zoomIn THEN MulDivRound(view.zoom, KeyZoomPct, 100)
                     ELSE MulDivRound(view.zoom, 100, KeyZoomPct)
     IN view' = applyZoom(view, nextZoom, Viewport.w \div 2, Viewport.h \div 2)
  /\ zoomOps' = zoomOps + 1
  /\ UNCHANGED <<elements, now, lifeVars, selVars, isSpace, gestureBaseZoomRef, gridRef,
                 panning, marquee, marqueeHits, panRef, gestVars>>

\* Ctrl/Cmd with 0: onReset
KeyReset ==
  /\ isAdditiveKeyDown
  /\ zoomOps < MaxZoomOps
  /\ view' = [zoom |-> ZoomOne, pan |-> [x |-> 0, y |-> 0]]
  /\ zoomOps' = zoomOps + 1
  /\ UNCHANGED <<elements, now, lifeVars, selVars, isSpace, gestureBaseZoomRef, gridRef,
                 panning, marquee, marqueeHits, panRef, gestVars>>

\* gesturestart of Safari's pinch
GestureStart ==
  /\ zoomOps < MaxZoomOps
  /\ gestureBaseZoomRef' = view.zoom
  /\ zoomOps' = zoomOps + 1
  /\ UNCHANGED <<elements, now, lifeVars, selVars, view, isSpace, gridRef,
                 panning, marquee, marqueeHits, panRef, gestVars>>

\* 1 + (scale - 1) * SAFARI_GESTURE_SENSITIVITY in thousandths
Adjusted(scale) ==
  IF Finite(scale) THEN ZoomOne + ((scale - ZoomOne) * GesturePct) \div 100
  ELSE scale

\* gesturechange: the scale is any number the event carries
GestureChange(scale, x, y) ==
  /\ zoomOps < MaxZoomOps
  /\ view' = applyZoom(view, Scaled(gestureBaseZoomRef, Adjusted(scale)), x, y)
  /\ zoomOps' = zoomOps + 1
  /\ UNCHANGED <<elements, now, lifeVars, selVars, isSpace, gestureBaseZoomRef, gridRef,
                 panning, marquee, marqueeHits, panRef, gestVars>>

\* ------------------------------------------------------------- marquee
NoMarquee == [isSelecting |-> FALSE, start |-> [x |-> 0, y |-> 0],
              current |-> [x |-> 0, y |-> 0], additive |-> FALSE]

\* a hit test that takes the start corner for the top left one
MarqueeHitsFromStart(els, a, b) ==
  {els[k].id : k \in {k \in 1..Len(els) :
     /\ els[k].type \in {"image", "video", "text"}
     /\ els[k].x < b.x /\ els[k].x + els[k].w > a.x
     /\ els[k].y < b.y /\ els[k].y + els[k].h > a.y}}

\* the hit test of onPointerMove
MarqueeHitsOf(els, a, b) ==
  LET x1 == Min2(a.x, b.x)
      y1 == Min2(a.y, b.y)
      x2 == Max2(a.x, b.x)
      y2 == Max2(a.y, b.y)
  IN {els[k].id : k \in {k \in 1..Len(els) :
        /\ els[k].type \in {"image", "video", "text"}
        /\ els[k].x < x2 /\ els[k].x + els[k].w > x1
        /\ els[k].y < y2 /\ els[k].y + els[k].h > y1}}

\* marquee finalize, had the loop compared with > : the earlier element on a tie
TopHitFirst(els, hits) ==
  LET idx == {k \in 1..Len(els) : els[k].id \in hits}
  IN IF idx = {} THEN 0
     ELSE els[CHOOSE k \in idx :
                \A j \in idx : els[k].z > els[j].z \/ (els[k].z = els[j].z /\ k <= j)].id

\* marquee finalize: the hit with the greatest z, the later element on a tie
TopHit(els, hits) ==
  LET idx == {k \in 1..Len(els) : els[k].id \in hits}
  IN IF idx = {} THEN 0
     ELSE els[CHOOSE k \in idx :
                \A j \in idx : els[k].z > els[j].z \/ (els[k].z = els[j].z /\ k >= j)].id

\* ------------------------------------------------------- pointer events
ScreenX == {0, 3}
ScreenY == {0, 5}

\* Element.onPointerDown: no pointer-down ever skips onSelect
SkipsSelectNever(el, id, additive) == FALSE

\* Element.onPointerDown: a video that is already selected, pressed without a
\* modifier, skips onSelect
SkipsSelect(el, id, additive) == el.type = "video" /\ Selected(id) /\ ~additive

\* Element.onPointerDown (left button), with onSelect and onDragStart
ElementPointerDown(p, id, x, y) ==
  /\ ~ptr[p].down
  /\ nDown < MaxDowns
  /\ id \in Ids /\ HasId(elements, id)
  /\ ~comp[id].isEditing
  /\ LET el == Find(elements, id)
         additive == isAdditiveKeyDown
         select == ~SkipsSelect(el, id, additive)
     IN /\ ~(el.type = "text" /\ el.error)
        /\ ptr' = [ptr EXCEPT ![p] = [down |-> TRUE, cap |-> "el", id |-> id,
                                      x |-> x, y |-> y]]
        /\ comp' = [comp EXCEPT ![id] = [@ EXCEPT
                      !.draggingRef = TRUE, !.isDragging = TRUE,
                      !.startPointer = [x |-> x, y |-> y],
                      !.startPos = [x |-> el.x, y |-> el.y],
                      !.moved = FALSE, !.wasSelected = Selected(id)]]
        /\ selectedId' = IF select THEN OnSelectPrimary(id) ELSE selectedId
        /\ selectedIds' = IF select THEN OnSelectSet(id) ELSE selectedIds
        /\ groupDragRef' = [anchorId |-> id, starts |-> DragStarts(id)]
        /\ elements' = BumpZ(elements, DragGroup(id), TopZOf(elements) + 1)
  /\ nDown' = nDown + 1
  /\ UNCHANGED <<now, lifeVars, isAdditiveKeyDown, canvasVars>>

\* onResizePointerDown on one of the eight handles of a selected text element
ResizePointerDown(p, id, dir, x, y) ==
  /\ ~ptr[p].down
  /\ nDown < MaxDowns
  /\ id \in Ids /\ HasId(elements, id)
  /\ LET el == Find(elements, id)
     IN /\ Selected(id) /\ el.type = "text" /\ ~el.error
        /\ ptr' = [ptr EXCEPT ![p] = [down |-> TRUE, cap |-> "handle", id |-> id,
                                      x |-> x, y |-> y]]
        /\ comp' = [comp EXCEPT ![id] = [@ EXCEPT
                      !.resizingRef = TRUE, !.resizeDir = dir,
                      !.startPointer = [x |-> x, y |-> y],
                      !.startPos = [x |-> el.x, y |-> el.y],
                      !.startSize = [w |-> el.w, h |-> el.h],
                      !.startFontSize = IF el.fontSize = 0 THEN 32 ELSE el.fontSize]]
  /\ selectedId' = OnSelectPrimary(id)
  /\ selectedIds' = OnSelectSet(id)
  /\ nDown' = nDown + 1
  /\ UNCHANGED <<elements, now, lifeVars, isAdditiveKeyDown, canvasVars, groupDragRef>>

\* Canvas.onPointerDown on the background; touch, pen, Space or the middle
\* button pan, the left mouse button starts a marquee
CanvasPointerDown(p, ptype, button, x, y) ==
  /\ ~ptr[p].down
  /\ nDown < MaxDowns
  /\ LET pan == ptype = "touch" \/ isSpace \/ button = 1
     IN /\ pan \/ button = 0
        /\ ptr' = [ptr EXCEPT ![p] = [down |-> TRUE, cap |-> "canvas", id |-> 0,
                                      x |-> x, y |-> y]]
        /\ IF pan
           THEN /\ panning' = TRUE
                /\ panRef' = [start |-> [x |-> x, y |-> y], origin |-> view.pan]
                /\ UNCHANGED <<marquee, marqueeHits, selectedId, selectedIds>>
           ELSE /\ marquee' = [isSelecting |-> TRUE,
                               start |-> [x |-> ToCanvasX(x), y |-> ToCanvasY(y)],
                               current |-> [x |-> ToCanvasX(x), y |-> ToCanvasY(y)],
                               additive |-> isAdditiveKeyDown]
                /\ marqueeHits' = {}
                /\ selectedId' = IF isAdditiveKeyDown THEN selectedId ELSE 0
                /\ selectedIds' = IF isAdditiveKeyDown THEN selectedIds ELSE {}
                /\ UNCHANGED <<panning, panRef>>
  /\ nDown' = nDown + 1
  /\ UNCHANGED <<elements, now, lifeVars, isAdditiveKeyDown, view, isSpace,
                 gestureBaseZoomRef, zoomOps, gridRef,
                 groupDragRef, comp>>

\* the Element a pointer event is dispatched to (0: the background)
TargetOf(p) == IF ptr[p].cap \in {"el", "handle"} THEN ptr[p].id ELSE 0
Dragging(id) == id \in Ids /\ comp[id].draggingRef

\* pointermove: Element.onPointerMove, then Canvas.onPointerMove, then the
\* listeners on window
PointerMove(p, x, y) ==
  /\ <<x, y>> # <<ptr[p].x, ptr[p].y>>
  /\ LET id == TargetOf(p)
         byElement == IF Dragging(id)
                      THEN OnMove(elements, id, DragNext(comp[id], x, y))
                      ELSE elements
         cur == [x |-> ToCanvasX(x), y |-> ToCanvasY(y)]
     IN /\ ptr' = [ptr EXCEPT ![p] = [@ EXCEPT !.x = x, !.y = y]]
        /\ comp' = IF Dragging(id) /\ ~comp[id].moved
                   THEN [comp EXCEPT ![id] = [@ EXCEPT !.moved = BeyondClick(comp[id], x, y)]]
                   ELSE comp
        /\ view' = IF panning
                   THEN [view EXCEPT !.pan =
                           ClampPan([x |-> panRef.origin.x + (x - panRef.start.x),
                                     y |-> panRef.origin.y + (y - panRef.start.y)],
                                    view.zoom)]
                   ELSE view
        /\ marquee' = IF marquee.isSelecting THEN [marquee EXCEPT !.current = cur]
                      ELSE marquee
        /\ marqueeHits' = IF marquee.isSelecting
                          THEN MarqueeHitsOf(elements, marquee.start, cur)
                          ELSE marqueeHits
        /\ elements' = WindowMove(RenderOrder(byElement, {}), byElement, x, y)
  /\ UNCHANGED <<now, lifeVars, selVars, isSpace,
                 gestureBaseZoomRef, zoomOps, gridRef, panning, panRef, groupDragRef, nDown>>

\* Canvas.onPointerUp: selection after a marquee is finalized
MarqueeFinalSet == IF marquee.additive THEN selectedIds \cup marqueeHits ELSE marqueeHits
MarqueeFinalPrimary ==
  IF marqueeHits # {} THEN TopHit(elements, marqueeHits)
  ELSE IF ~marquee.additive THEN 0 ELSE selectedId

\* a tap on a text element that was already selected starts editing it
TapEdits(c, el) == ~c.moved /\ el.type = "text" /\ c.wasSelected

\* pointerup: Element.onPointerUp, then Canvas.onPointerUp, then the
\* listeners on window
PointerUp(p) ==
  /\ ptr[p].down
  /\ LET id == TargetOf(p)
         drag == Dragging(id)
         c1 == IF drag
               THEN [comp EXCEPT ![id] = [@ EXCEPT
                       !.draggingRef = FALSE, !.isDragging = FALSE,
                       !.isEditing = TapEdits(comp[id], Find(elements, id))]]
               ELSE comp
     IN /\ comp' = WindowUp(c1)
        /\ elements' = IF drag THEN OnDragEnd(elements, id, now) ELSE elements
        /\ groupDragRef' = IF drag THEN NoGroupDrag ELSE groupDragRef
  /\ panning' = FALSE
  /\ marquee' = NoMarquee
  /\ marqueeHits' = {}
  /\ selectedIds' = IF marquee.isSelecting THEN MarqueeFinalSet ELSE selectedIds
  /\ selectedId' = IF marquee.isSelecting THEN MarqueeFinalPrimary ELSE selectedId
  /\ ptr' = [ptr EXCEPT ![p] = NoPtr]
  /\ UNCHANGED <<now, lifeVars, isAdditiveKeyDown, view, isSpace,
                 gestureBaseZoomRef, zoomOps, gridRef, panRef, nDown>>

\* Element.onPointerCancel / onLostPointerCapture
DragAborted(cmp, id) ==
  IF id \in Ids /\ cmp[id].draggingRef
  THEN [cmp EXCEPT ![id] = [@ EXCEPT !.draggingRef = FALSE, !.isDragging = FALSE]]
  ELSE cmp

\* pointercancel: Element.onPointerCancel, then Canvas.onPointerCancel; no
\* listener on window hears it
PointerCancel(p) ==
  /\ ptr[p].down
  /\ comp' = DragAborted(comp, TargetOf(p))
  /\ panning' = FALSE
  /\ marquee' = IF marquee.isSelecting THEN NoMarquee ELSE marquee
  /\ marqueeHits' = IF marquee.isSelecting THEN {} ELSE marqueeHits
  /\ ptr' = [ptr EXCEPT ![p] = NoPtr]
  /\ UNCHANGED <<elements, now, lifeVars, selVars, view, isSpace,
                 gestureBaseZoomRef, zoomOps, gridRef, panRef,
                 groupDragRef, nDown>>

\* lostpointercapture while the pointer stays down: Element.onLostPointerCapture,
\* then Canvas.onLostPointerCapture
LostPointerCapture(p) ==
  /\ ptr[p].down /\ ptr[p].cap # "none"
  /\ comp' = DragAborted(comp, TargetOf(p))
  /\ panning' = FALSE
  /\ marquee' = IF marquee.isSelecting THEN NoMarquee ELSE marquee
  /\ marqueeHits' = IF marquee.isSelecting THEN {} ELSE marqueeHits
  /\ ptr' = [ptr EXCEPT ![p] = [@ EXCEPT !.cap = "none", !.id = 0]]
  /\ UNCHANGED <<elements, now, lifeVars, selVars, view, isSpace,
                 gestureBaseZoomRef, zoomOps, gridRef, panRef,
                 groupDragRef, nDown>>

\* the text being edited loses focus
Blur(id) ==
  /\ comp[id].isEditing
  /\ comp' = [comp EXCEPT ![id] = [@ EXCEPT !.isEditing = FALSE]]
  /\ UNCHANGED <<elements, now, lifeVars, selVars, canvasVars, groupDragRef, ptr, nDown>>

\* ------------------------------------------------------------ auto-layout
\* a / b rounded to the nearest step (b > 0)
DivRound(a, b) == (2 * a + b) \div (2 * b)
Abs(v) == IF v < 0 THEN 0 - v ELSE v
InSeq(s, v) == \E i \in 1..Len(s) : s[i] = v

\* byId[id]: the last element of the store with this id
ById(els, id) == els[CHOOSE i \in 1..Len(els) :
                       /\ els[i].id = id
                       /\ \A j \in (i + 1)..Len(els) : els[j].id # id]

\* the elements the layout looks at: image or video, not generating
Eligible(el) == el.type \in {"image", "video"} /\ ~el.isGenerating
\* the elements a timer is about
TimerTargets(t) == IF t.kind = "clearAnim" THEN t.ids ELSE {t.id}
\* history: the timer t fires on the store els
FiredLate(t, els) ==
  IF TimerTargets(t) \cap StoreIds(els) = {} THEN lateFired \cup {t.kind} ELSE lateFired

\* a layout that knows no cooldown
NeverCoolingDown(el, t) == FALSE
\* el.userMoved && el.lastUserMoveAt && t - el.lastUserMoveAt < USER_MOVE_COOLDOWN_MS
CoolingDown(el, t) ==
  el.userMoved /\ el.lastUserMoveAt # 0 /\ t - el.lastUserMoveAt < USER_MOVE_COOLDOWN_MS

\* overlaps(rectOf(a), rectOf(b), margin)
Overlaps(a, b, margin) ==
  /\ a.x < b.x + b.w + margin
  /\ a.x + a.w > b.x - margin
  /\ a.y < b.y + b.h + margin
  /\ a.y + a.h > b.y - margin
\* centerOf
CenterX(el) == el.x + el.w \div 2
CenterY(el) == el.y + el.h \div 2
\* distance(centerOf(el), seedCenter) <= Math.max(seed.width, seed.height) * 0.9
WithinRadius(el, seed) ==
  LET dx == Abs(CenterX(el) - CenterX(seed))
      dy == Abs(CenterY(el) - CenterY(seed))
      r == (Max2(seed.w, seed.h) * ProximityTenths) \div 10
  IN dx <= r /\ dy <= r /\ dx * dx + dy * dy <= r * r

\* clusterIds is kept in insertion order
\* the proximity loop over prev, from index k on
RECURSIVE NearSeed(_, _, _, _)
NearSeed(els, k, seed, cluster) ==
  IF k > Len(els) THEN cluster
  ELSE NearSeed(els, k + 1, seed,
                IF /\ Eligible(els[k])
                   /\ ~InSeq(cluster, els[k].id)
                   /\ WithinRadius(els[k], seed)
                THEN Append(cluster, els[k].id) ELSE cluster)

\* the inner loop of the flood fill for the element cur, from index k on
RECURSIVE FloodHits(_, _, _, _)
FloodHits(els, k, cur, cluster) ==
  IF k > Len(els) THEN cluster
  ELSE FloodHits(els, k + 1, cur,
                 IF /\ Eligible(els[k])
                    /\ ~InSeq(cluster, els[k].id)
                    /\ Overlaps(cur, els[k], U(ClusterMargin))
                 THEN Append(cluster, els[k].id) ELSE cluster)

\* while (queue.length) { const curId = queue.pop() ... }
RECURSIVE FloodFill(_, _, _)
FloodFill(els, cluster, queue) ==
  IF Len(queue) = 0 THEN cluster
  ELSE LET cur == ById(els, queue[Len(queue)])
           grown == FloodHits(els, 1, cur, cluster)
       IN FloodFill(els, grown, SubSeq(queue, 1, Len(queue) - 1)
                                  \o SubSeq(grown, Len(cluster) + 1, Len(grown)))

\* a cluster without the flood fill: the seed and what lies near it
ClusterOfNear(els, seedId) == NearSeed(els, 1, ById(els, seedId), <<seedId>>)

\* the ids of the cluster around the seed, in insertion order
ClusterOf(els, seedId) ==
  LET near == NearSeed(els, 1, ById(els, seedId), <<seedId>>)
  IN FloodFill(els, near, near)

\* centers.reduce: the sum of the first i entries
RECURSIVE SumTo(_, _)
SumTo(s, i) == IF i = 0 THEN 0 ELSE SumTo(s, i - 1) + s[i]

\* the mean of the centers of the cluster members
ClusterCenter(els, cluster) ==
  LET n == Len(cluster)
      sx == [i \in 1..n |-> CenterX(ById(els, cluster[i]))]
      sy == [i \in 1..n |-> CenterY(ById(els, cluster[i]))]
  IN [x |-> DivRound(SumTo(sx, n), n), y |-> DivRound(SumTo(sy, n), n)]

\* subset.filter(not cooling down)
Movable(els, cluster, t) ==
  LET T(id) == ~CoolingDown(ById(els, id), t)
      ids == SelectSeq(cluster, T)
  IN [i \in 1..Len(ids) |-> ById(els, ids[i])]

\* the pairs (i, j), i < j, of a list of n entries; each pair has its own
\* outcome of Math.random() < 0.5
PairsOf(n) == {p \in (1..n) \X (1..n) : p[1] < p[2]}
Coins(n) == [PairsOf(n) -> {0 - 1, 1}]

\* a push with the sign of the direction inverted: the pair is pulled together
PushPairInward(pos, list, i, j, axc, ayc, coins) ==
  LET sa == list[i]
      sb == list[j]
      dx == axc - (pos[j].x + sb.w \div 2)
      dy == ayc - (pos[j].y + sb.h \div 2)
      overlapX == sa.w \div 2 + sb.w \div 2 + U(LayoutMargin)
                  - DivRound(Min2(sa.w, sb.w) * OverlapRatioPct, 100) - Abs(dx)
      overlapY == sa.h \div 2 + sb.h \div 2 + U(LayoutMargin)
                  - DivRound(Min2(sa.h, sb.h) * OverlapRatioPct, 100) - Abs(dy)
      dirX == IF dx = 0 THEN coins[<<i, j>>] ELSE IF dx > 0 THEN 0 - 1 ELSE 1
      dirY == IF dy = 0 THEN coins[<<i, j>>] ELSE IF dy > 0 THEN 0 - 1 ELSE 1
  IN IF overlapX > 0 /\ overlapY > 0
     THEN IF overlapX < overlapY
          THEN [pos EXCEPT ![i] = [@ EXCEPT !.x = @ + DivRound(overlapX, 2) * dirX],
                           ![j] = [@ EXCEPT !.x = @ - DivRound(overlapX, 2) * dirX]]
          ELSE [pos EXCEPT ![i] = [@ EXCEPT !.y = @ + DivRound(overlapY, 2) * dirY],
                           ![j] = [@ EXCEPT !.y = @ - DivRound(overlapY, 2) * dirY]]
     ELSE pos

\* computeResolvedPositions: the body of the loop over j for the pair (i, j);
\* axc and ayc are the center of entry i as it was when the loop over j began
PushPair(pos, list, i, j, axc, ayc, coins) ==
  LET sa == list[i]
      sb == list[j]
      a == pos[i]
      b == pos[j]
      dx == axc - (b.x + sb.w \div 2)
      dy == ayc - (b.y + sb.h \div 2)
      allowedX == DivRound(Min2(sa.w, sb.w) * OverlapRatioPct, 100)
      allowedY == DivRound(Min2(sa.h, sb.h) * OverlapRatioPct, 100)
      overlapX == sa.w \div 2 + sb.w \div 2 + U(LayoutMargin) - allowedX - Abs(dx)
      overlapY == sa.h \div 2 + sb.h \div 2 + U(LayoutMargin) - allowedY - Abs(dy)
      dirX == IF dx = 0 THEN coins[<<i, j>>] ELSE IF dx > 0 THEN 1 ELSE 0 - 1
      dirY == IF dy = 0 THEN coins[<<i, j>>] ELSE IF dy > 0 THEN 1 ELSE 0 - 1
  IN IF overlapX > 0 /\ overlapY > 0
     THEN IF overlapX < overlapY
          THEN LET push == DivRound(overlapX, 2)
               IN [pos EXCEPT ![i] = [a EXCEPT !.x = @ + push * dirX],
                              ![j] = [b EXCEPT !.x = @ - push * dirX]]
          ELSE LET push == DivRound(overlapY, 2)
               IN [pos EXCEPT ![i] = [a EXCEPT !.y = @ + push * dirY],
                              ![j] = [b EXCEPT !.y = @ - push * dirY]]
     ELSE pos

\* the loop over j
RECURSIVE PushPairs(_, _, _, _, _, _, _)
PushPairs(pos, list, i, j, axc, ayc, coins) ==
  IF j > Len(list) THEN pos
  ELSE PushPairs(PushPair(pos, list, i, j, axc, ayc, coins), list, i, j + 1,
                 axc, ayc, coins)

\* the loop over i: attraction to the group center, then the pushes
RECURSIVE Sweep(_, _, _, _, _)
Sweep(pos, list, i, center, coins) ==
  IF i > Len(list) THEN pos
  ELSE LET a == pos[i]
           axc == a.x + list[i].w \div 2
           ayc == a.y + list[i].h \div 2
           pulled == [pos EXCEPT ![i] =
                        [x |-> a.x + DivRound((center.x - axc) * AttractionPerMille, 1000),
                         y |-> a.y + DivRound((center.y - ayc) * AttractionPerMille, 1000)]]
       IN Sweep(PushPairs(pulled, list, i, i + 1, axc, ayc, coins), list, i + 1,
                center, coins)

\* the loop over iter
RECURSIVE Relax(_, _, _, _, _)
Relax(pos, list, iter, center, coins) ==
  IF iter = 0 \/ Len(pos) = 0 THEN pos
  ELSE Relax(Sweep(pos, list, 1, center, coins), list, iter - 1, center, coins)

computeResolvedPositions(list, center, coins) ==
  Relax([i \in 1..Len(list) |-> [x |-> list[i].x, y |-> list[i].y]], list,
        LayoutIterations, center, coins)

\* the updater of the layout timer returns prev
LayoutSkips(els, seedId, t) ==
  \/ ~HasId(els, seedId)
  \/ ~Eligible(ById(els, seedId))
  \/ CoolingDown(ById(els, seedId), t)
  \/ Len(ClusterOf(els, seedId)) <= 1
  \/ Len(Movable(els, ClusterOf(els, seedId), t)) = 0

\* withAnim, had it put the hint on every element of the store
WithAnimStore(els, seedId, t, coins) ==
  [k \in 1..Len(els) |-> [Copy(els[k]) EXCEPT !.animateMove = TRUE]]

\* withAnim
WithAnim(els, seedId, t, coins) ==
  LET cluster == ClusterOf(els, seedId)
      list == Movable(els, cluster, t)
      newPositions == computeResolvedPositions(list, ClusterCenter(els, cluster), coins)
      Placed(id) == CHOOSE i \in 1..Len(list) : list[i].id = id
  IN [k \in 1..Len(els) |->
        IF CoolingDown(els[k], t) THEN els[k]
        ELSE IF \E i \in 1..Len(list) : list[i].id = els[k].id
             THEN [Copy(els[k]) EXCEPT !.x = newPositions[Placed(els[k].id)].x,
                                       !.y = newPositions[Placed(els[k].id)].y,
                                       !.animateMove = TRUE]
             ELSE els[k]]

\* the callback scheduleSpawnGroupLayout armed, when it is the next timer to fire
LayoutFire ==
  /\ Len(timers) > 0
  /\ timers[1].kind = "layout"
  /\ LET t == timers[1]
         when == Max2(now, t.at)
     IN /\ now' = when
        /\ IF LayoutSkips(elements, t.id, when)
           THEN /\ elements' = elements
                /\ timers' = Tail(timers)
           ELSE \E coins \in Coins(Len(Movable(elements, ClusterOf(elements, t.id), when))) :
                  /\ elements' = WithAnim(elements, t.id, when, coins)
                  /\ timers' = InsertTimer(Tail(timers),
                                           ClearAnimTimer(when, Range(ClusterOf(elements, t.id))))
  /\ lateFired' = FiredLate(timers[1], elements)
  /\ UNCHANGED <<clipboardElements, undoStack, undoIdOf, tasks, blobs, revoked, nextId,
                 nextUrl, nextUndo, finLog, restored, selVars, canvasVars, gestVars>>

\* clearing the hint on every element of the store
ClearAnimateAll(els, ids) ==
  [k \in 1..Len(els) |-> [Copy(els[k]) EXCEPT !.animateMove = FALSE]]
\* curr.map((e) => (clusterIds.has(e.id) ? { ...e, animateMove: false } : e))
ClearAnimate(els, ids) ==
  [k \in 1..Len(els) |->
     IF els[k].id \in ids THEN [Copy(els[k]) EXCEPT !.animateMove = FALSE] ELSE els[k]]

\* the callback that clears the animation hint, when it is the next timer to fire
ClearAnimFire ==
  /\ Len(timers) > 0
  /\ timers[1].kind = "clearAnim"
  /\ now' = Max2(now, timers[1].at)
  /\ elements' = ClearAnimate(elements, timers[1].ids)
  /\ timers' = Tail(timers)
  /\ lateFired' = FiredLate(timers[1], elements)
  /\ UNCHANGED <<clipboardElements, undoStack, undoIdOf, tasks, blobs, revoked, nextId,
                 nextUrl, nextUndo, finLog, restored, selVars, canvasVars, gestVars>>

\* ------------------------------------------------------------- spawn bus
\* the notifications of the generation collaborator: lupe:add-placeholder,
\* lupe:add-image, lupe:add-video, lupe:remove-placeholder, lupe:replace-with-error
RemoteUrl(n) == [scheme |-> "remote", n |-> n]
\* detail.__group; group 0: the notification carries no grid coordinates
NoGroup == [group |-> 0, column |-> 0, row |-> 0, totalColumns |-> 0]

\* the geometry the first spawn of a batch fixes
GridOf(g, center, w, h) ==
  LET colCount == Max2(1, Min2(12, g.totalColumns))
      totalWidth == colCount * w + (colCount - 1) * U(GridGap)
  IN [set |-> TRUE, colCount |-> colCount, itemW |-> w, itemH |-> h,
      left |-> center.x - totalWidth \div 2, top0 |-> center.y - h \div 2]
\* if (!gridRef[groupId]) gridRef[groupId] = { ... }
GridRefAfter(ref, g, center, w, h) ==
  IF ref[g.group].set THEN ref ELSE [ref EXCEPT ![g.group] = GridOf(g, center, w, h)]
\* the cell of the clamped (row, column)
GridTarget(cfg, g) ==
  LET col == Max2(0, Min2(cfg.colCount - 1, g.column))
      row == Max2(0, g.row)
  IN [x |-> Round(cfg.left + col * (cfg.itemW + U(GridGap))),
      y |-> Round(cfg.top0 + row * (cfg.itemH + U(GridGap)))]

\* window.setTimeout(animate to target, 50)
GridPlaceTimer(id, target) ==
  [kind |-> "gridPlace", at |-> now + GridDelayMs, id |-> id, target |-> target]
\* the nested window.setTimeout(clear the hint, 450), armed at time t
GridClearTimer(t, id) == [kind |-> "gridClear", at |-> t + AnimateMoveMs, id |-> id]

\* lupe:add-placeholder
AddPlaceholder(id, kind, dims, g) ==
  /\ Len(elements) < MaxIds
  /\ Len(timers) < MaxTimers
  /\ now <= Horizon
  /\ LET c == ViewCenter
         el == [NewElement(id, kind, Round(c.x - U(dims.w) \div 2),
                           Round(c.y - U(dims.h) \div 2), U(dims.w), U(dims.h), now)
                  EXCEPT !.isGenerating = TRUE]
         ref == GridRefAfter(gridRef, g, c, U(dims.w), U(dims.h))
     IN /\ elements' = Append(elements, el)
        /\ IF g.group # 0
           THEN /\ gridRef' = ref
                /\ timers' = InsertTimer(timers, GridPlaceTimer(id, GridTarget(ref[g.group], g)))
           ELSE UNCHANGED <<gridRef, timers>>
  /\ UNCHANGED <<now, clipboardElements, undoStack, undoIdOf, tasks, blobs, revoked,
                 nextId, nextUrl, nextUndo, finLog, lateFired, restored, selVars, view, isSpace,
                 gestureBaseZoomRef, zoomOps,
                 panning, marquee, marqueeHits, panRef, gestVars>>

\* lupe:add-image / lupe:add-video: the handler up to its await on the
\* measurement; placeholderId 0: the notification spawns a new element
AddMedia(kind, url, placeholderId, dims, g) ==
  /\ Len(tasks) < MaxTasks
  /\ now <= Horizon
  /\ IF placeholderId # 0
     THEN /\ tasks' = Append(tasks, [kind |-> "fill", media |-> kind, id |-> placeholderId,
                                     url |-> url, dims |-> dims])
          /\ nextId' = nextId
     ELSE /\ nextId <= MaxIds
          /\ tasks' = Append(tasks, [kind |-> "spawn", media |-> kind, id |-> nextId,
                                     url |-> url, dims |-> dims, center |-> ViewCenter,
                                     g |-> IF kind = "image" THEN g ELSE NoGroup])
          /\ nextId' = nextId + 1
  /\ UNCHANGED <<elements, now, clipboardElements, undoStack, undoIdOf, timers, blobs,
                 revoked, nextUrl, nextUndo, finLog, lateFired, restored, selVars, canvasVars,
                 gestVars>>

\* the update of a placeholder by a fill
Filled(els, t) ==
  [k \in 1..Len(els) |->
     IF els[k].id = t.id
     THEN IF t.media = "image"
          THEN [Copy(els[k]) EXCEPT !.imageUrl = t.url, !.isGenerating = FALSE,
                                    !.w = U(t.dims.w), !.h = U(t.dims.h)]
          ELSE [Copy(els[k]) EXCEPT !.videoUrl = t.url, !.isGenerating = FALSE,
                                    !.w = U(t.dims.w), !.h = U(t.dims.h)]
     ELSE els[k]]

\* the element a spawning notification appends
Spawned(t) ==
  LET base == NewElement(t.id, t.media, Round(t.center.x - U(t.dims.w) \div 2),
                         Round(t.center.y - U(t.dims.h) \div 2),
                         U(t.dims.w), U(t.dims.h), now)
  IN IF t.media = "image" THEN [base EXCEPT !.imageUrl = t.url]
     ELSE [base EXCEPT !.videoUrl = t.url]

\* lupe:add-image / lupe:add-video: the handler after the measurement
MeasureStep(k) ==
  /\ k \in 1..Len(tasks)
  /\ tasks[k].kind \in {"fill", "spawn"}
  /\ LET t == tasks[k]
     IN IF t.kind = "fill"
        THEN /\ elements' = Filled(elements, t)
             /\ UNCHANGED <<timers, gridRef>>
        ELSE /\ elements' = Append(elements, Spawned(t))
             /\ IF t.g.group # 0
                THEN LET ref == GridRefAfter(gridRef, t.g, t.center,
                                             U(t.dims.w), U(t.dims.h))
                     IN /\ gridRef' = ref
                        /\ timers' = InsertTimer(timers,
                                       GridPlaceTimer(t.id, GridTarget(ref[t.g.group], t.g)))
                ELSE /\ gridRef' = gridRef
                     /\ timers' = InsertTimer(timers, LayoutTimer(t.id))
  /\ tasks' = RemoveAt(tasks, k)
  /\ UNCHANGED <<now, clipboardElements, undoStack, undoIdOf, blobs, revoked, nextId,
                 nextUrl, nextUndo, finLog, lateFired, restored, selVars, view, isSpace,
                 gestureBaseZoomRef, zoomOps, panning,
                 marquee, marqueeHits, panRef, gestVars>>

\* lupe:remove-placeholder
RemovePlaceholder(id) ==
  /\ elements' = WithoutIds(elements, {id})
  /\ comp' = Mounted(comp, elements')
  /\ ptr' = Captured(ptr, elements')
  /\ UNCHANGED <<now, lifeVars, selVars, canvasVars, groupDragRef, nDown>>

\* lupe:replace-with-error: the element becomes an error note
ErrorNote(el) ==
  [Copy(el) EXCEPT !.type = "text", !.isGenerating = FALSE, !.error = TRUE,
                   !.imageUrl = NoUrl, !.videoUrl = NoUrl,
                   !.imageKey = 0, !.videoKey = 0]
ReplaceWithError(id) ==
  /\ elements' = [k \in 1..Len(elements) |->
                    IF elements[k].id = id THEN ErrorNote(elements[k]) ELSE elements[k]]
  /\ UNCHANGED <<now, lifeVars, selVars, canvasVars, gestVars>>

\* prev.map((p) => (p.id === id ? { ...p, position: target, animateMove: true } : p))
GridPlace(els, id, target) ==
  [k \in 1..Len(els) |->
     IF els[k].id = id
     THEN [Copy(els[k]) EXCEPT !.x = target.x, !.y = target.y, !.animateMove = TRUE]
     ELSE els[k]]

\* the grid-placement callback, when it is the next timer to fire
GridPlaceFire ==
  /\ Len(timers) > 0
  /\ timers[1].kind = "gridPlace"
  /\ now' = Max2(now, timers[1].at)
  /\ elements' = GridPlace(elements, timers[1].id, timers[1].target)
  /\ timers' = InsertTimer(Tail(timers), GridClearTimer(now', timers[1].id))
  /\ lateFired' = FiredLate(timers[1], elements)
  /\ UNCHANGED <<clipboardElements, undoStack, undoIdOf, tasks, blobs, revoked, nextId,
                 nextUrl, nextUndo, finLog, restored, selVars, canvasVars, gestVars>>

\* the callback that ends the grid animation, when it is the next timer to fire
GridClearFire ==
  /\ Len(timers) > 0
  /\ timers[1].kind = "gridClear"
  /\ now' = Max2(now, timers[1].at)
  /\ elements' = ClearAnimate(elements, {timers[1].id})
  /\ timers' = Tail(timers)
  /\ lateFired' = FiredLate(timers[1], elements)
  /\ UNCHANGED <<clipboardElements, undoStack, undoIdOf, tasks, blobs, revoked, nextId,
                 nextUrl, nextUndo, finLog, restored, selVars, canvasVars, gestVars>>

\* ------------------------------------------------------- specifications
NoView == [zoom |-> ZoomOne, pan |-> [x |-> 0, y |-> 0]]
NoPanRef == [start |-> [x |-> 0, y |-> 0], origin |-> [x |-> 0, y |-> 0]]

\* the canvas after construction: empty store, nothing selected
Init ==
  /\ elements = <<>>
  /\ selectedId = 0 /\ selectedIds = {} /\ isAdditiveKeyDown = FALSE
  /\ clipboardElements = <<>>
  /\ undoStack = <<>>
  /\ undoIdOf = [u \in 1..MaxUndo |-> 0]
  /\ timers = <<>> /\ tasks = <<>>
  /\ blobs = {} /\ revoked = {}
  /\ nextId = 1 /\ nextUrl = 1 /\ nextUndo = 1 /\ now = 1
  /\ finLog = <<>> /\ restored = {} /\ lateFired = {}
  /\ view = NoView
  /\ isSpace = FALSE /\ panning = FALSE
  /\ gestureBaseZoomRef = ZoomOne /\ zoomOps = 0
  /\ gridRef = [g \in Groups |-> NoGrid]
  /\ marquee = NoMarquee /\ marqueeHits = {}
  /\ panRef = NoPanRef
  /\ groupDragRef = NoGroupDrag
  /\ comp = [i \in Ids |-> InitComp]
  /\ ptr = [p \in Pointers |-> NoPtr]
  /\ nDown = 0

\* element lifecycle: spawn, select by click, copy, paste, delete, undo, expiry
NextLife ==
  \/ \E dims \in FileDims : AddFiles("image", dims, TRUE)
  \/ AddText
  \/ KeyDownAdditive
  \/ KeyUpAdditive
  \/ \E id \in Ids : ElementPointerDown(1, id, 0, 0)
  \/ PointerUp(1)
  \/ DeleteMulti
  \/ DeleteSingle
  \/ CopyKey
  \/ PasteKey
  \/ \E k \in 1..Len(tasks), putOk \in BOOLEAN : DupStep(k, putOk)
  \/ UndoDelete
  \/ \E k \in 1..Len(tasks) : RestoreStep(k)
  \/ ExpireUndo
  \/ LayoutFire
  \/ ClearAnimFire
  \/ \E id \in Ids : Blur(id)

SpecLife == Init /\ [][NextLife]_vars

\* pointer gestures start from a canvas that holds a text note and an uploaded
\* image or video; the layout solver leaves media at positions that are not
\* whole numbers, text notes are always at whole numbers
Fractions == {0, 40}
\* a corner handle and an edge handle
HandlesTried == {"se", "n"}
Zooms == {ZoomOne, 2 * ZoomOne}
GestureText == [NewElement(1, "text", U(2), U(1), U(80), U(60), 1) EXCEPT !.fontSize = 32]
GestureMedia(type, frac) ==
  IF type = "image"
  THEN [NewElement(2, type, U(4) + frac, U(2) + frac, U(10), U(10), 2)
          EXCEPT !.imageUrl = BlobUrl(1), !.imageKey = 2]
  ELSE [NewElement(2, type, U(4) + frac, U(2) + frac, U(10), U(10), 2)
          EXCEPT !.videoUrl = BlobUrl(1), !.videoKey = 2]

InitGesture ==
  /\ \E type \in {"image", "video"}, frac \in Fractions :
       elements = <<GestureText, GestureMedia(type, frac)>>
  /\ \E both \in BOOLEAN :
       /\ selectedId = IF both THEN 2 ELSE 0
       /\ selectedIds = IF both THEN {1, 2} ELSE {}
  /\ isAdditiveKeyDown = FALSE
  /\ clipboardElements = <<>>
  /\ undoStack = <<>>
  /\ undoIdOf = [u \in 1..MaxUndo |-> 0]
  /\ timers = <<>> /\ tasks = <<>>
  /\ blobs = {2} /\ revoked = {}
  /\ nextId = 3 /\ nextUrl = 2 /\ nextUndo = 1 /\ now = 1
  /\ finLog = <<>> /\ restored = {} /\ lateFired = {}
  /\ \E zoom \in Zooms : view = [zoom |-> zoom, pan |-> [x |-> 0, y |-> 0]]
  /\ isSpace = FALSE /\ panning = FALSE
  /\ gestureBaseZoomRef = ZoomOne /\ zoomOps = 0
  /\ gridRef = [g \in Groups |-> NoGrid]
  /\ marquee = NoMarquee /\ marqueeHits = {}
  /\ panRef = NoPanRef
  /\ groupDragRef = NoGroupDrag
  /\ comp = [i \in Ids |-> InitComp]
  /\ ptr = [p \in Pointers |-> NoPtr]
  /\ nDown = 0

\* pointer gestures: drag, resize, pan, marquee, and their three endings
NextGesture ==
  \/ \E id \in Ids : ElementPointerDown(1, id, 0, 0)
  \/ \E id \in Ids, dir \in HandlesTried : ResizePointerDown(1, id, dir, 0, 0)
  \/ \E ptype \in {"mouse", "touch"}, button \in {0, 1} :
        CanvasPointerDown(1, ptype, button, 0, 0)
  \/ \E x \in ScreenX, y \in ScreenY : PointerMove(1, x, y)
  \/ PointerUp(1)
  \/ PointerCancel(1)
  \/ LostPointerCapture(1)
  \/ KeyDownAdditive
  \/ KeyUpAdditive
  \/ \E id \in Ids : Blur(id)

SpecGesture == InitGesture /\ [][NextGesture]_vars

\* spawn-group layout starts from a canvas that holds one uploaded image, left
\* where it was spawned or dragged 20 units to the right a second or nine
\* seconds before; an upload arms a layout pass
LayoutDims == {[w |-> 100, h |-> 100]}
LayoutStart == 10000
MoveAges == {0, 1000, 9000}
\* the first image: age 0 is never moved, otherwise moved `age` ms ago
LayoutFirst(age) ==
  [NewElement(1, "image", IF age = 0 THEN U(450) ELSE U(470), U(350), U(100), U(100), 1)
     EXCEPT !.imageUrl = BlobUrl(1), !.imageKey = 1,
            !.userMoved = (age # 0),
            !.lastUserMoveAt = IF age = 0 THEN 0 ELSE LayoutStart - age]

InitLayout ==
  /\ \E age \in MoveAges : elements = <<LayoutFirst(age)>>
  /\ selectedId = 0 /\ selectedIds = {} /\ isAdditiveKeyDown = FALSE
  /\ clipboardElements = <<>>
  /\ undoStack = <<>>
  /\ undoIdOf = [u \in 1..MaxUndo |-> 0]
  /\ timers = <<>> /\ tasks = <<>>
  /\ blobs = {1} /\ revoked = {}
  /\ nextId = 2 /\ nextUrl = 2 /\ nextUndo = 1 /\ now = LayoutStart
  /\ finLog = <<>> /\ restored = {} /\ lateFired = {}
  /\ view = NoView
  /\ isSpace = FALSE /\ panning = FALSE
  /\ gestureBaseZoomRef = ZoomOne /\ zoomOps = 0
  /\ gridRef = [g \in Groups |-> NoGrid]
  /\ marquee = NoMarquee /\ marqueeHits = {}
  /\ panRef = NoPanRef
  /\ groupDragRef = NoGroupDrag
  /\ comp = [i \in Ids |-> InitComp]
  /\ ptr = [p \in Pointers |-> NoPtr]
  /\ nDown = 0

\* uploads, drags and deletions around the layout timers
NextLayout ==
  \/ \E dims \in LayoutDims : AddFiles("image", dims, TRUE)
  \/ \E id \in Ids : ElementPointerDown(1, id, 0, 0)
  \/ \E x \in ScreenX, y \in ScreenY : PointerMove(1, x, y)
  \/ PointerUp(1)
  \/ DeleteSingle
  \/ LayoutFire
  \/ ClearAnimFire

SpecLayout == InitLayout /\ [][NextLayout]_vars

\* the spawn bus starts from an empty canvas; the collaborator names its
\* placeholder 1, the canvas numbers the elements it spawns itself from 2 on
PlaceholderIds == {1}
BusDims == {[w |-> 100, h |-> 100]}
BusUrls == {RemoteUrl(1)}
BusGroups == {NoGroup, [group |-> 1, column |-> 1, row |-> 0, totalColumns |-> 2]}

InitSpawn ==
  /\ elements = <<>>
  /\ selectedId = 0 /\ selectedIds = {} /\ isAdditiveKeyDown = FALSE
  /\ clipboardElements = <<>>
  /\ undoStack = <<>>
  /\ undoIdOf = [u \in 1..MaxUndo |-> 0]
  /\ timers = <<>> /\ tasks = <<>>
  /\ blobs = {} /\ revoked = {}
  /\ nextId = 2 /\ nextUrl = 1 /\ nextUndo = 1 /\ now = 1
  /\ finLog = <<>> /\ restored = {} /\ lateFired = {}
  /\ view = NoView
  /\ isSpace = FALSE /\ panning = FALSE
  /\ gestureBaseZoomRef = ZoomOne /\ zoomOps = 0
  /\ gridRef = [g \in Groups |-> NoGrid]
  /\ marquee = NoMarquee /\ marqueeHits = {}
  /\ panRef = NoPanRef
  /\ groupDragRef = NoGroupDrag
  /\ comp = [i \in Ids |-> InitComp]
  /\ ptr = [p \in Pointers |-> NoPtr]
  /\ nDown = 0

\* notifications of the collaborator, measurements and timers
NextSpawn ==
  \/ \E id \in PlaceholderIds, dims \in BusDims, g \in BusGroups :
        AddPlaceholder(id, "image", dims, g)
  \/ \E url \in BusUrls, pid \in PlaceholderIds \cup {0}, dims \in BusDims,
        g \in BusGroups : AddMedia("image", url, pid, dims, g)
  \/ \E k \in 1..Len(tasks) : MeasureStep(k)
  \/ \E id \in Ids : RemovePlaceholder(id)
  \/ \E id \in Ids : ReplaceWithError(id)
  \/ GridPlaceFire
  \/ GridClearFire
  \/ LayoutFire
  \/ ClearAnimFire

SpecSpawn == InitSpawn /\ [][NextSpawn]_vars

\* copy and paste start from a canvas that holds a text note and an uploaded
\* icon, both selected or one of them
PasteNote(x) ==
  [NewElement(MaxIds + 1, "text", x, U(130), U(400), U(160), 1) EXCEPT !.fontSize = 32]
PasteImage ==
  [NewElement(MaxIds + 2, "image", U(150), U(100), U(4), U(4), 2)
     EXCEPT !.imageUrl = BlobUrl(1), !.imageKey = MaxIds + 2]
NoteXs == {U(100), U(200)}

InitPaste ==
  /\ \E x \in NoteXs : elements = <<PasteNote(x), PasteImage>>
  /\ \E sel \in {0, MaxIds + 1, MaxIds + 2} :
       /\ selectedId = sel
       /\ selectedIds = IF sel = 0 THEN {MaxIds + 1, MaxIds + 2} ELSE {}
  /\ isAdditiveKeyDown = FALSE
  /\ clipboardElements = <<>>
  /\ undoStack = <<>>
  /\ undoIdOf = [u \in 1..MaxUndo |-> 0]
  /\ timers = <<>> /\ tasks = <<>>
  /\ blobs = {MaxIds + 2} /\ revoked = {}
  /\ nextId = 1 /\ nextUrl = 2 /\ nextUndo = 1 /\ now = 1000
  /\ finLog = <<>> /\ restored = {} /\ lateFired = {}
  /\ view = NoView
  /\ isSpace = FALSE /\ panning = FALSE
  /\ gestureBaseZoomRef = ZoomOne /\ zoomOps = 0
  /\ gridRef = [g \in Groups |-> NoGrid]
  /\ marquee = NoMarquee /\ marqueeHits = {}
  /\ panRef = NoPanRef
  /\ groupDragRef = NoGroupDrag
  /\ comp = [i \in Ids |-> InitComp]
  /\ ptr = [p \in Pointers |-> NoPtr]
  /\ nDown = 0

\* copy, paste, and what a paste leaves behind
NextPaste ==
  \/ KeyDownAdditive
  \/ KeyUpAdditive
  \/ CopyKey
  \/ PasteKey
  \/ \E k \in 1..Len(tasks), putOk \in BOOLEAN : DupStep(k, putOk)
  \/ LayoutFire
  \/ ClearAnimFire

SpecPaste == InitPaste /\ [][NextPaste]_vars

\* the camera alone: wheel, keyboard and pinch on an empty canvas; a wheel
\* delta and a pinch scale may be any number, finite or not
WheelDeltas == {0 - 100, 400, NaN}
PanDeltas == {0 - 300, 300, NaN, PosInf}
GestureScales == {500, 2000, NaN, PosInf, NegInf}
AnchorXs == {0, Viewport.w}
AnchorYs == {0, Viewport.h}

InitCamera == InitSpawn

NextCamera ==
  \/ KeyDownAdditive
  \/ KeyUpAdditive
  \/ \E d \in WheelDeltas, x \in AnchorXs, y \in AnchorYs : WheelZoom(d, x, y)
  \/ \E dx \in PanDeltas, dy \in PanDeltas : WheelPan(dx, dy)
  \/ \E zoomIn \in BOOLEAN : KeyZoom(zoomIn)
  \/ KeyReset
  \/ GestureStart
  \/ \E sc \in GestureScales, x \in AnchorXs, y \in AnchorYs : GestureChange(sc, x, y)

SpecCamera == InitCamera /\ [][NextCamera]_vars

\* the marquee alone, on the canvas of the gestures: pressed and dragged
\* between points on, inside and outside the edges of the two elements
MarqueeXs == {0, 2, 50, 90}
MarqueeYs == {0, 1, 30, 70}

InitMarquee == InitGesture

NextMarquee ==
  \/ \E x \in MarqueeXs, y \in MarqueeYs : CanvasPointerDown(1, "mouse", 0, x, y)
  \/ \E x \in MarqueeXs, y \in MarqueeYs : PointerMove(1, x, y)
  \/ PointerUp(1)
  \/ KeyDownAdditive
  \/ KeyUpAdditive

SpecMarquee == InitMarquee /\ [][NextMarquee]_vars

\* marquee finalize: nothing is selected at first, and the two elements are
\* stacked in store order, against it, or on one z
StackZs == {<<1, 2>>, <<2, 1>>, <<2, 2>>}

\* the canvas of the gestures at zoom 1 with these elements and this selection
InitCanvasOf(els, primary, set) ==
  /\ elements = els
  /\ selectedId = primary /\ selectedIds = set
  /\ isAdditiveKeyDown = FALSE
  /\ clipboardElements = <<>>
  /\ undoStack = <<>>
  /\ undoIdOf = [u \in 1..MaxUndo |-> 0]
  /\ timers = <<>> /\ tasks = <<>>
  /\ blobs = {2} /\ revoked = {}
  /\ nextId = 3 /\ nextUrl = 2 /\ nextUndo = 1 /\ now = 1
  /\ finLog = <<>> /\ restored = {} /\ lateFired = {}
  /\ view = [zoom |-> ZoomOne, pan |-> [x |-> 0, y |-> 0]]
  /\ isSpace = FALSE /\ panning = FALSE
  /\ gestureBaseZoomRef = ZoomOne /\ zoomOps = 0
  /\ gridRef = [g \in Groups |-> NoGrid]
  /\ marquee = NoMarquee /\ marqueeHits = {}
  /\ panRef = NoPanRef
  /\ groupDragRef = NoGroupDrag
  /\ comp = [i \in Ids |-> InitComp]
  /\ ptr = [p \in Pointers |-> NoPtr]
  /\ nDown = 0

\* the text and the image of the gestures on these z values
Stacked(zs) ==
  <<[GestureText EXCEPT !.z = zs[1]], [GestureMedia("image", 0) EXCEPT !.z = zs[2]]>>

InitFinalize == \E zs \in StackZs : InitCanvasOf(Stacked(zs), 0, {})

NextFinalize ==
  \/ \E x \in MarqueeXs, y \in MarqueeYs : CanvasPointerDown(1, "mouse", 0, x, y)
  \/ \E x \in MarqueeXs, y \in MarqueeYs : PointerMove(1, x, y)
  \/ PointerUp(1)
  \/ KeyDownAdditive
  \/ KeyUpAdditive

SpecFinalize == InitFinalize /\ [][NextFinalize]_vars

\* drags of one element and of both: the two elements are stacked as an
\* earlier drag of the second, of the first, or an upload in one millisecond
\* has left them, and both or none are selected
InitStack ==
  \E zs \in StackZs, both \in BOOLEAN :
    InitCanvasOf(Stacked(zs), IF both THEN 2 ELSE 0, IF both THEN {1, 2} ELSE {})

NextStack ==
  \/ \E id \in Ids : ElementPointerDown(1, id, 0, 0)
  \/ \E x \in ScreenX, y \in ScreenY : PointerMove(1, x, y)
  \/ PointerUp(1)
  \/ KeyDownAdditive
  \/ KeyUpAdditive

SpecStack == InitStack /\ [][NextStack]_vars

\* cluster detection: a fresh image at the left, a second box near it, just
\* inside its margin, just outside of it or far away, and a third box just
\* inside the margin of one of the places of the second, or far away; the
\* second and the third are images, placeholders still generating, or notes;
\* the layout pass of the first is armed
SecondXs == {60, 105, 120, 300}
ThirdXs == {170, 215, 500}
BoxKinds == {"image", "generating", "text"}
ClusterBox(id, x, kind) ==
  [NewElement(id, IF kind = "text" THEN "text" ELSE "image",
              U(x), U(350), U(100), U(100), id)
     EXCEPT !.isGenerating = (kind = "generating")]

InitCluster ==
  /\ \E x2 \in SecondXs, x3 \in ThirdXs, k2 \in BoxKinds, k3 \in BoxKinds :
       elements = <<ClusterBox(1, 0, "image"), ClusterBox(2, x2, k2),
                    ClusterBox(3, x3, k3)>>
  /\ \E sel \in {0, 2} :
       selectedId = sel /\ selectedIds = IF sel = 0 THEN {} ELSE {sel}
  /\ isAdditiveKeyDown = FALSE
  /\ clipboardElements = <<>>
  /\ undoStack = <<>>
  /\ undoIdOf = [u \in 1..MaxUndo |-> 0]
  /\ now = LayoutStart
  /\ timers = <<LayoutTimer(1)>> /\ tasks = <<>>
  /\ blobs = {} /\ revoked = {}
  /\ nextId = 4 /\ nextUrl = 1 /\ nextUndo = 1
  /\ finLog = <<>> /\ restored = {} /\ lateFired = {}
  /\ view = NoView
  /\ isSpace = FALSE /\ panning = FALSE
  /\ gestureBaseZoomRef = ZoomOne /\ zoomOps = 0
  /\ gridRef = [g \in Groups |-> NoGrid]
  /\ marquee = NoMarquee /\ marqueeHits = {}
  /\ panRef = NoPanRef
  /\ groupDragRef = NoGroupDrag
  /\ comp = [i \in Ids |-> InitComp]
  /\ ptr = [p \in Pointers |-> NoPtr]
  /\ nDown = 0

NextCluster ==
  \/ LayoutFire
  \/ ClearAnimFire

SpecCluster == InitCluster /\ [][NextCluster]_vars

\* placeholders under the pointer: the collaborator adds, removes and fails
\* placeholders while the user selects, deletes and restores them
NextPick ==
  \/ \E id \in PlaceholderIds, dims \in BusDims : AddPlaceholder(id, "image", dims, NoGroup)
  \/ \E id \in PlaceholderIds : RemovePlaceholder(id)
  \/ \E id \in PlaceholderIds : ReplaceWithError(id)
  \/ \E id \in Ids : ElementPointerDown(1, id, 0, 0)
  \/ PointerUp(1)
  \/ DeleteSingle
  \/ UndoDelete
  \/ ExpireUndo

SpecPick == InitSpawn /\ [][NextPick]_vars

\* two fingers: each goes down on the background, on an element or on a
\* handle of the selected note, moves and goes up, in any order
InitTouch == InitCanvasOf(Stacked(<<1, 2>>), 0, {})

NextTouch ==
  \/ \E p \in Pointers : CanvasPointerDown(p, "touch", 0, 0, 0)
  \/ \E p \in Pointers, id \in Ids : ElementPointerDown(p, id, 0, 0)
  \/ \E p \in Pointers, id \in Ids : ResizePointerDown(p, id, "se", 0, 0)
  \/ \E p \in Pointers, x \in ScreenX, y \in ScreenY : PointerMove(p, x, y)
  \/ \E p \in Pointers : PointerUp(p)

SpecTouch == InitTouch /\ [][NextTouch]_vars

\* placeholders between the collaborator and the user: the collaborator adds
\* placeholder 1 and answers it by a fill, an error or a removal; the user
\* selects, copies and pastes what is on the canvas
Deliver ==
  \E id \in PlaceholderIds : RemovePlaceholder(id) \/ ReplaceWithError(id)

NextDeliver ==
  \/ \E id \in PlaceholderIds, dims \in BusDims : AddPlaceholder(id, "image", dims, NoGroup)
  \/ \E url \in BusUrls, id \in PlaceholderIds, dims \in BusDims :
        AddMedia("image", url, id, dims, NoGroup)
  \/ \E k \in 1..Len(tasks) : MeasureStep(k)
  \/ Deliver
  \/ \E id \in Ids : ElementPointerDown(1, id, 0, 0)
  \/ PointerUp(1)
  \/ KeyDownAdditive
  \/ KeyUpAdditive
  \/ CopyKey
  \/ PasteKey

\* the collaborator answers every placeholder that waits in the store
SpecDeliver == InitSpawn /\ [][NextDeliver]_vars /\ WF_vars(Deliver)

\* corner resizes alone, on the canvas of the gestures: the handle is
\* pressed and dragged in every direction, far enough to reach the minimum
ResizeXs == {0, 3, 40}
ResizeYs == {0, 40}
ResizeCorners == {"se", "nw"}

InitResize == InitGesture

NextResize ==
  \/ \E id \in Ids, dir \in ResizeCorners, x \in ResizeXs, y \in ResizeYs :
        ResizePointerDown(1, id, dir, x, y)
  \/ \E x \in ResizeXs, y \in ResizeYs : PointerMove(1, x, y)
  \/ PointerUp(1)

SpecResize == InitResize /\ [][NextResize]_vars

\* ----------------------------------------------------------------- claims
PushedUndoIds == 1..(nextUndo - 1)
Armed(u) == \E i \in 1..Len(timers) : timers[i].kind = "undo" /\ timers[i].undoId = u
FinalizeCalls(u) == Cardinality({i \in 1..Len(finLog) : finLog[i].undoId = u})
OnStack(u) == \E i \in 1..Len(undoStack) : undoStack[i].pushedAs = u

\* C1: every pushed undo snapshot whose timer fired without a restore was
\* finalized exactly once and has left the stack; every snapshot that
\* undoDelete restored has no timer armed and was never finalized.
UndoTtlExactlyOnce ==
  \A u \in PushedUndoIds :
    /\ u \in restored => ~Armed(u) /\ FinalizeCalls(u) = 0
    /\ (u \notin restored /\ ~Armed(u)) => FinalizeCalls(u) = 1 /\ ~OnStack(u)

\* C2: no two elements of the Element Store have the same id.
UniqueIds ==
  \A i, j \in 1..Len(elements) : i # j => elements[i].id # elements[j].id

\* C3: the primary selected id is a member of the selected-id set, or the
\* primary is empty and the set is empty.
SelectionConsistent ==
  \/ selectedId \in selectedIds
  \/ (selectedId = 0 /\ selectedIds = {})

\* the snapshots an undo may be restoring in this step
UndoCandidates ==
  (IF undoStack # <<>> THEN {undoStack[Len(undoStack)]} ELSE {})
    \cup {tasks[k].snap : k \in {j \in 1..Len(tasks) : tasks[j].kind = "restore"}}
\* this step appends the restored elements of snapshot s to the store
RestoreCompletes(s) ==
  \/ /\ undoStack # <<>> /\ undoStack[Len(undoStack)] = s
     /\ s.pushedAs \notin restored /\ s.pushedAs \in restored'
     /\ tasks' = tasks
  \/ \E k \in 1..Len(tasks) :
       tasks[k].kind = "restore" /\ tasks[k].snap = s /\ tasks' = RemoveAt(tasks, k)
GroupIds(s) == {s.group[i].id : i \in 1..Len(s.group)}
SameElements(a, b) ==
  /\ Len(a) = Len(b)
  /\ Range(Copies(a)) = Range(Copies(b))

\* C4: when the undo of a multi-delete of two or more elements completes on
\* the store the delete left, the store holds exactly the elements it held
\* before the delete, each with the same field values, no cache entry is
\* deleted and the snapshot was never finalized.
MultiDeleteUndoExact ==
  [][\A s \in UndoCandidates :
       (/\ Len(s.before) > 0 /\ Len(s.group) >= 2
        /\ RestoreCompletes(s)
        /\ Copies(elements) = Copies(WithoutIds(s.before, GroupIds(s))))
       => /\ SameElements(elements', s.before)
          /\ blobs' = blobs
          /\ FinalizeCalls(s.pushedAs) = 0]_vars

\* C5: when paste's media duplication completes, a pasted element that is no
\* longer in the store is not put back, and an element in the store changes
\* only by receiving its new media key.
DupCompletes(k) == tasks[k].kind = "dup" /\ tasks' = RemoveAt(tasks, k)
DuplicationTolerant ==
  [][\A k \in 1..Len(tasks) :
       DupCompletes(k) =>
         \A id \in tasks[k].newIds : ~HasId(elements, id) => ~HasId(elements', id)]_vars

\* C6: a cache key is deleted and a blob URL is revoked only when no element
\* of the store references it.
References(e, key) == e.imageKey = key \/ e.videoKey = key
Shows(e, url) == e.imageUrl = url \/ e.videoUrl = url
FinalizeOnlyUnreferenced ==
  [][/\ \A key \in blobs \ blobs' :
          \A i \in 1..Len(elements) : ~References(elements[i], key)
     /\ \A url \in revoked' \ revoked :
          \A i \in 1..Len(elements) : ~Shows(elements[i], url)]_vars

\* no pointer is captured by an element, a handle or the canvas
NoCapture == \A p \in Pointers : ptr[p].cap = "none"

\* C7: once a drag, a pan or a marquee has ended by pointer-up, pointer-cancel
\* or lost capture, no element is dragging, the canvas is neither panning nor
\* marqueeing, and the group-drag record is reset.
GesturesEndIdle ==
  NoCapture =>
    /\ \A i \in Ids : ~comp[i].draggingRef /\ ~comp[i].isDragging
    /\ ~panning
    /\ ~marquee.isSelecting
    /\ groupDragRef = NoGroupDrag

\* C8: once a resize has ended by pointer-up, pointer-cancel or lost capture,
\* the resizing flag and the handle direction are cleared, and pointer moves
\* change no element's size or position.
Geometry(els) == [k \in 1..Len(els) |-> <<els[k].x, els[k].y, els[k].w, els[k].h>>]
ResizeTerminated ==
  [][NoCapture =>
       /\ \A i \in Ids : ~comp[i].resizingRef /\ comp[i].resizeDir = "none"
       /\ NoCapture' => Geometry(elements') = Geometry(elements)]_vars

\* C9: while a group is dragged, every member of the group is away from its
\* start position by the same delta.
GroupDragging ==
  /\ groupDragRef.anchorId \in Ids
  /\ comp[groupDragRef.anchorId].draggingRef
  /\ Cardinality(DOMAIN groupDragRef.starts) > 1
DeltaOf(id) ==
  [x |-> LastPos(elements, id).x - groupDragRef.starts[id].x,
   y |-> LastPos(elements, id).y - groupDragRef.starts[id].y]
GroupDragSameDelta ==
  GroupDragging =>
    \A a, b \in DOMAIN groupDragRef.starts : DeltaOf(a) = DeltaOf(b)

\* C10: userMoved and lastUserMoveAt of an element change only at the end of a
\* gesture whose pointer motion exceeded the click threshold.
UserMarks(els) == [k \in 1..Len(els) |-> <<els[k].userMoved, els[k].lastUserMoveAt>>]
TapLeavesUnmoved ==
  [][UserMarks(elements') # UserMarks(elements) =>
       \E id \in Ids : comp[id].draggingRef /\ comp[id].moved]_vars

\* a step in which the layout timer at the head of the queue fires
LayoutStep ==
  /\ Len(timers) > 0
  /\ timers[1].kind = "layout"
  /\ now' = Max2(now, timers[1].at)
  /\ \/ timers' = Tail(timers)
     \/ \E ids \in SUBSET Ids :
          timers' = InsertTimer(Tail(timers), ClearAnimTimer(now', ids))

\* C11: a layout pass never changes the position of an element that is under
\* its user-move cooldown when the pass runs (userMoved, and less than
\* USER_MOVE_COOLDOWN_MS since lastUserMoveAt), be it the seed or another
\* member of the cluster
CooldownRespected ==
  [][LayoutStep =>
       /\ Len(elements') = Len(elements)
       /\ \A k \in 1..Len(elements) :
            (elements[k].userMoved
               /\ now' - elements[k].lastUserMoveAt < USER_MOVE_COOLDOWN_MS)
            => (elements'[k].x = elements[k].x /\ elements'[k].y = elements[k].y)]_vars
\* a pass has placed a member of a cluster whose other member was under its
\* cooldown when the pass ran
CooldownCase ==
  \E i \in 1..Len(timers) :
    /\ timers[i].kind = "clearAnim"
    /\ \E k, j \in 1..Len(elements) :
         /\ k # j
         /\ elements[k].id \in timers[i].ids
         /\ elements[j].id \in timers[i].ids
         /\ elements[j].animateMove
         /\ elements[k].userMoved
         /\ elements[k].lastUserMoveAt <= timers[i].at - AnimateMoveMs
         /\ timers[i].at - AnimateMoveMs - elements[k].lastUserMoveAt
              < USER_MOVE_COOLDOWN_MS


\* a step in which the timer at the head of the queue fires although none of
\* the elements it is about is in the store
LateTimerStep ==
  /\ Len(timers) > 0
  /\ timers[1].kind \in {"layout", "clearAnim", "gridPlace", "gridClear"}
  /\ TimerTargets(timers[1]) \cap StoreIds(elements) = {}
  /\ now' = Max2(now, timers[1].at)
  /\ \/ timers' = Tail(timers)
     \/ timers' = InsertTimer(Tail(timers), GridClearTimer(now', timers[1].id))

\* C12: a layout, grid-placement or hint-clearing timer that fires after the
\* elements it is about were removed leaves the store as it is: nothing is
\* changed, created or brought back
LateTimersAreNoOps == [][LateTimerStep => elements' = elements]_vars
\* timers of each kind have fired late, one of them on a store that holds
\* another element
LateTimersCase ==
  /\ {"layout", "gridPlace", "gridClear"} \subseteq lateFired
  /\ Len(elements) > 0


\* a Ctrl+V that found a clipboard: one id per entry and one undo entry used
PasteStep ==
  /\ isAdditiveKeyDown
  /\ Len(clipboardElements) > 0
  /\ nextId' = nextId + Len(clipboardElements)
  /\ nextUndo' = nextUndo + 1
  /\ Len(elements') = Len(elements) + Len(clipboardElements)

\* C13: a paste of n >= 2 clipboard entries with bounding-box minimum
\* (minX, minY) appends n elements, entry i at (orig.x - minX + 30,
\* orig.y - minY + 30), with pairwise distinct ids that no element of the
\* store had, and z ascending in clipboard order; a paste of one entry
\* appends it at (orig.x + 20, orig.y + 20).
PastePlacesGroup ==
  [][PasteStep =>
       LET n == Len(clipboardElements)
           m == Len(elements)
           xs == {clipboardElements[j].x : j \in 1..n}
           ys == {clipboardElements[j].y : j \in 1..n}
       IN /\ SubSeq(elements', 1, m) = elements
          /\ \A i \in 1..n :
               LET e == elements'[m + i]
                   orig == clipboardElements[i]
               IN /\ IF n = 1
                     THEN e.x = orig.x + 20 * FP /\ e.y = orig.y + 20 * FP
                     ELSE /\ \E minX \in xs : /\ \A v \in xs : minX <= v
                                               /\ e.x = orig.x - minX + 30 * FP
                          /\ \E minY \in ys : /\ \A v \in ys : minY <= v
                                               /\ e.y = orig.y - minY + 30 * FP
                  /\ e.id \notin StoreIds(elements)
                  /\ \A j \in 1..n : j # i => elements'[m + j].id # e.id
                  /\ i < n => e.z < elements'[m + i + 1].z]_vars

\* two entries were pasted and stand where the paste put them, the entry
\* that was not at the minimum away from the corner (30, 30)
PastedGroupCase ==
  /\ Len(clipboardElements) = 2
  /\ Len(elements) = 4
  /\ elements[3].id = 1 /\ elements[4].id = 2
  /\ elements[3].z < elements[4].z
  /\ \A i \in 1..2 :
       /\ elements[2 + i].x = clipboardElements[i].x - SeqMinX(clipboardElements) + 30 * FP
       /\ elements[2 + i].y = clipboardElements[i].y - SeqMinY(clipboardElements) + 30 * FP
  /\ elements[3].x # elements[4].x
  /\ elements[3].y # elements[4].y


\* the zoom at which the viewport exactly fits the world extent
FitZoom ==
  Min2((Viewport.w * ZoomOne) \div (WORLD_MAX - WORLD_MIN),
       (Viewport.h * ZoomOne) \div (WORLD_MAX - WORLD_MIN))

\* C14: after any sequence of zoom operations the zoom lies between the
\* dynamic minimum, the greater of the floor 0.005 and the zoom at which the
\* viewport fits the world (0.01 for a viewport of 1000x800), and MAX_ZOOM.
ZoomWithinBounds ==
  /\ Max2(ZoomFloor, FitZoom) = 10
  /\ view.zoom >= Max2(ZoomFloor, FitZoom)
  /\ view.zoom <= MAX_ZOOM

\* what one screen pixel covers of the world at zoom z, and a step of rounding
PixelWorld(z) == (FP * ZoomOne) \div z + 1

\* between two states the world point under the screen point (x, y) is the same
SameWorldPoint(x, y) ==
  /\ Abs(ToCanvasX(x)' - ToCanvasX(x)) <= PixelWorld(view'.zoom)
  /\ Abs(ToCanvasY(y)' - ToCanvasY(y)) <= PixelWorld(view'.zoom)

FiniteView(v) == Finite(v.zoom) /\ Finite(v.pan.x) /\ Finite(v.pan.y)

\* C15: from any view, applyZoom(zoom1, anchor) with zoom1 within
\* [dynamicMinZoom, MAX_ZOOM] leaves the world point under the anchor where
\* it was (within rounding).
AnchorStaysFixed ==
  [][\A d \in WheelDeltas, x \in AnchorXs, y \in AnchorYs :
       LET zoom1 == Scaled(view.zoom, WheelFactor(d))
       IN (/\ FiniteView(view)
           /\ Finite(zoom1) /\ zoom1 >= getDynamicMinZoom /\ zoom1 <= MAX_ZOOM
           /\ zoomOps' = zoomOps + 1
           /\ view' = applyZoom(view, zoom1, x, y))
          => SameWorldPoint(x, y)]_vars

\* C15, amended: the world point under the anchor stays where it was (within
\* rounding) when zoom1 is within bounds and the pan recomputed for the
\* anchor needs no clamping.
AnchorFixedUnlessClamped ==
  [][\A d \in WheelDeltas, x \in AnchorXs, y \in AnchorYs :
       LET zoom1 == Scaled(view.zoom, WheelFactor(d))
           nextPan == [x |-> ZoomedPan(x, view.pan.x, zoom1, view.zoom),
                       y |-> ZoomedPan(y, view.pan.y, zoom1, view.zoom)]
       IN (/\ FiniteView(view)
           /\ Finite(zoom1) /\ zoom1 >= getDynamicMinZoom /\ zoom1 <= MAX_ZOOM
           /\ zoomOps' = zoomOps + 1
           /\ view' = applyZoom(view, zoom1, x, y)
           /\ ClampPan(nextPan, zoom1) = nextPan)
          => SameWorldPoint(x, y)]_vars

\* the view was zoomed in about the far corner of the container, and the
\* world point under that corner is the one it was at zoom 1
ZoomedAboutCornerCase ==
  /\ FiniteView(view)
  /\ view.zoom > ZoomOne
  /\ view.pan.x < 0 /\ view.pan.y < 0
  /\ Abs(ToCanvasX(Viewport.w) - U(Viewport.w)) <= PixelWorld(view.zoom)
  /\ Abs(ToCanvasY(Viewport.h) - U(Viewport.h)) <= PixelWorld(view.zoom)

\* pans to clamp: the pan of the view, shifted by the wheel, and pans far
\* outside the world
ProbePans ==
  {[x |-> view.pan.x - dx, y |-> view.pan.y - dy] :
     dx \in {0 - 100000, 0 - 300, 0, 300, 100000},
     dy \in {0 - 100000, 0, 300, 100000}}

\* the visible world rectangle of pan p at zoom z, one axis: centred on the
\* world where the viewport is larger than the world, inside it otherwise
AxisInWorld(pan, z, size) ==
  LET left == MulDiv(0 - pan, FP * ZoomOne, z)
      viewportWorld == (size * FP * ZoomOne) \div z
  IN IF viewportWorld >= U(WORLD_MAX - WORLD_MIN)
     THEN Abs(2 * left + viewportWorld - (U(WORLD_MIN) + U(WORLD_MAX))) <= 2 * PixelWorld(z)
     ELSE /\ left >= U(WORLD_MIN) - PixelWorld(z)
          /\ left + viewportWorld <= U(WORLD_MAX) + PixelWorld(z)

\* C16: clampPan(clampPan(p, z), z) = clampPan(p, z) for every pan p and
\* zoom z, and the clamped pan centres the view on an axis where the viewport
\* is larger than the world and keeps the visible rectangle inside the world
\* otherwise.
ClampPanIdempotent ==
  Finite(view.zoom) /\ Finite(view.pan.x) /\ Finite(view.pan.y) =>
    \A p \in ProbePans :
      LET c == ClampPan(p, view.zoom)
      IN /\ ClampPan(c, view.zoom) = c
         /\ AxisInWorld(c.x, view.zoom, Viewport.w)
         /\ AxisInWorld(c.y, view.zoom, Viewport.h)

\* the view was clamped on the x axis, where the viewport is smaller than the
\* world: its right edge is the world's
ClampedAtEdgeCase ==
  /\ FiniteView(view)
  /\ view.zoom < ZoomOne
  /\ (Viewport.w * FP * ZoomOne) \div view.zoom < U(WORLD_MAX - WORLD_MIN)
  /\ Abs(ToCanvasX(Viewport.w) - U(WORLD_MAX)) <= PixelWorld(view.zoom)
  /\ ClampPan(view.pan, view.zoom) = view.pan

\* C17: a requested zoom, wheel delta or pinch scale that is not finite is
\* rejected or ignored: after any camera operation the zoom and both
\* components of the pan are finite numbers.
ViewStaysFinite == FiniteView(view)


\* a pointer move while the marquee is open
MarqueeMoveStep == marquee.isSelecting /\ marquee'.isSelecting /\ ptr' # ptr

\* C18: the marquee hits depend only on the rectangle its two corners span:
\* with the corners swapped the hit test gives the same ids, and an element
\* is hit exactly when its box and the rectangle have an open intersection.
MarqueeHitsBySpan ==
  [][MarqueeMoveStep =>
       LET s0 == marquee'.start
           c0 == marquee'.current
           l2 == IF s0.x <= c0.x THEN s0.x ELSE c0.x
           r2 == IF s0.x <= c0.x THEN c0.x ELSE s0.x
           t2 == IF s0.y <= c0.y THEN s0.y ELSE c0.y
           b2 == IF s0.y <= c0.y THEN c0.y ELSE s0.y
       IN /\ marqueeHits' = MarqueeHitsOf(elements, c0, s0)
          /\ \A k \in 1..Len(elements) :
               elements[k].id \in marqueeHits'
                 <=> (/\ elements[k].x < r2 /\ elements[k].x + elements[k].w > l2
                      /\ elements[k].y < b2 /\ elements[k].y + elements[k].h > t2)]_vars

\* a marquee dragged up and to the left that hits one element and misses
\* the other
MarqueeBackwardsCase ==
  /\ marquee.isSelecting
  /\ marquee.current.x < marquee.start.x /\ marquee.current.y < marquee.start.y
  /\ marqueeHits = {1}
  /\ Len(elements) = 2


\* a pointer move while the component of element id resizes by its 'se' handle
SeResizeStep(id) ==
  /\ comp[id].resizingRef /\ comp[id].resizeDir = "se"
  /\ HasId(elements, id) /\ HasId(elements', id)
  /\ ptr'[1].down = ptr[1].down
  /\ <<ptr'[1].x, ptr'[1].y>> # <<ptr[1].x, ptr[1].y>>

PlaceholderRedelivered(id) ==
  /\ HasId(elements, id)
  /\ Len(elements') = Len(elements) + 1
  /\ elements'[Len(elements')].id = id
  /\ elements'[Len(elements')].isGenerating

\* the fill in flight as task k completes on a placeholder that the same
\* fill has completed on before
FillRedelivered(k) ==
  /\ k \in 1..Len(tasks) /\ tasks[k].kind = "fill"
  /\ tasks' = RemoveAt(tasks, k)
  /\ \A i \in 1..Len(elements) :
       elements[i].id = tasks[k].id =>
         /\ ~elements[i].isGenerating
         /\ elements[i].imageUrl = tasks[k].url
         /\ elements[i].w = U(tasks[k].dims.w) /\ elements[i].h = U(tasks[k].dims.h)

\* C20: the handling of spawn-bus notifications is idempotent per id: an
\* add-placeholder or a placeholder fill delivered a second time leaves the
\* Element Store as the first delivery left it (a second remove-placeholder
\* or replace-with-error finds nothing left to change).
BusRedeliveryLeavesStore ==
  [][/\ \A id \in PlaceholderIds : PlaceholderRedelivered(id) => elements' = elements
     /\ \A k \in 1..MaxTasks : FillRedelivered(k) => elements' = elements]_vars


NoMedia(e) == e.imageUrl = NoUrl /\ e.videoUrl = NoUrl /\ e.imageKey = 0 /\ e.videoKey = 0

\* C21: an element that is generating has no media reference, and an
\* element in the error state has no media fields and is not generating,
\* whatever the event bus delivers after the error (a late fill included).
PlaceholderAndErrorHoldNoMedia ==
  \A k \in 1..Len(elements) :
    /\ elements[k].isGenerating => NoMedia(elements[k])
    /\ elements[k].error => NoMedia(elements[k]) /\ ~elements[k].isGenerating


\* element k is an image or video that is not generating and is not held by
\* a user move made less than the cooldown before time t
FreeMedia(e, t) ==
  /\ e.type \in {"image", "video"} /\ ~e.isGenerating
  /\ ~(e.userMoved /\ e.lastUserMoveAt # 0 /\ t - e.lastUserMoveAt < USER_MOVE_COOLDOWN_MS)

\* the store holds two boxes of 100x100, 20 apart on the x axis, and the
\* layout pass of one of them runs
TwoBoxesStep ==
  /\ LayoutStep
  /\ Len(elements) = 2
  /\ timers[1].id \in {elements[1].id, elements[2].id}
  /\ \A k \in 1..2 : /\ FreeMedia(elements[k], now')
                      /\ elements[k].w = 100 * FP /\ elements[k].h = 100 * FP
  /\ elements[1].y = elements[2].y
  /\ Abs(elements[1].x - elements[2].x) = 20 * FP

\* C22: for two overlapping 100x100 boxes spawned 20 units apart the layout
\* pass finds a cluster of size 2 and, after the relaxation, the centres of
\* the two boxes are at least 90 apart on the separating axis.
TwoBoxesSeparated ==
  [][TwoBoxesStep =>
       /\ Len(elements') = 2
       /\ \E i \in 1..Len(timers') :
            /\ timers'[i].kind = "clearAnim"
            /\ timers'[i].ids = {elements[1].id, elements[2].id}
       /\ elements'[1].animateMove /\ elements'[2].animateMove
       /\ Abs((elements'[1].x + elements'[1].w \div 2)
               - (elements'[2].x + elements'[2].w \div 2)) >= 90 * FP]_vars

\* the two boxes after their pass: both carry the animation hint and stand
\* side by side at the height they had
TwoBoxesCase ==
  /\ Len(elements) = 2
  /\ \A k \in 1..2 : /\ elements[k].animateMove
                      /\ elements[k].w = 100 * FP /\ elements[k].type = "image"
  /\ Abs(elements[1].y - elements[2].y) <= FP
  /\ Abs(elements[1].x - elements[2].x) >= 90 * FP
  /\ elements[1].userMoved


\* a pointer-down on element id that calls onSelect(id)
SelectStep(id) ==
  /\ ~ptr[1].down /\ ptr'[1].down /\ ptr'[1].cap = "el" /\ ptr'[1].id = id
  /\ ~(Find(elements, id).type = "video" /\ Selected(id) /\ ~isAdditiveKeyDown)

\* C23: select(id, additive) toggles id in the selection set when additive and
\* collapses the set to {id} otherwise; the primary selection becomes id,
\* except that it becomes undefined when the additive toggle removed id
SelectTogglesOrCollapses ==
  [][\A id \in Ids : SelectStep(id) =>
       /\ selectedIds' = IF isAdditiveKeyDown
                         THEN IF id \in selectedIds THEN selectedIds \ {id}
                              ELSE selectedIds \cup {id}
                         ELSE {id}
       /\ selectedId' = IF isAdditiveKeyDown /\ id \in selectedIds THEN 0
                        ELSE id]_vars

\* a pointer-down on the hit area of element id
ElementDownStep(id) ==
  ~ptr[1].down /\ ptr'[1].down /\ ptr'[1].cap = "el" /\ ptr'[1].id = id

\* the selection set select(id, additive) leaves
Toggled(id) ==
  IF isAdditiveKeyDown
  THEN IF id \in selectedIds THEN selectedIds \ {id} ELSE selectedIds \cup {id}
  ELSE {id}

MarqueeFinalStep == marquee.isSelecting /\ ~marquee'.isSelecting

\* C25: when a marquee is finalized an additive marquee unions its hits into
\* the selection set and any other replaces the set by the hits; the primary
\* becomes the hit with the greatest z, the later element in store order on a
\* tie; with no hits and a marquee that is not additive, set and primary are
\* cleared
MarqueeFinalizeSelects ==
  [][MarqueeFinalStep =>
       /\ selectedIds' = IF marquee.additive THEN selectedIds \cup marqueeHits
                         ELSE marqueeHits
       /\ marqueeHits # {} =>
            \E k \in 1..Len(elements) :
              /\ elements[k].id = selectedId' /\ selectedId' \in marqueeHits
              /\ \A j \in 1..Len(elements) :
                   elements[j].id \in marqueeHits =>
                     \/ elements[j].z < elements[k].z
                     \/ (elements[j].z = elements[k].z /\ j <= k)
       /\ (marqueeHits = {} /\ ~marquee.additive) =>
            selectedId' = 0 /\ selectedIds' = {}]_vars

\* both elements lie on one z and a finished marquee has selected both, the
\* later one as primary
MarqueeTieCase ==
  /\ ~marquee.isSelecting /\ ~ptr[1].down
  /\ elements[1].z = elements[2].z
  /\ selectedIds = {elements[1].id, elements[2].id}
  /\ selectedId = elements[2].id

\* the store indices of the drag group a pointer-down has just snapshotted
GroupIdx == {k \in 1..Len(elements) : elements[k].id \in DOMAIN groupDragRef'.starts}

\* C26: at drag start every member of the drag group gets a z above every
\* element outside the group, the new z values are pairwise distinct, and the
\* members keep the z order they had before the drag started
DragStartKeepsGroupOrder ==
  [][\A id \in Ids : ElementDownStep(id) =>
       /\ \A k \in GroupIdx : \A j \in (1..Len(elements)) \ GroupIdx :
            elements'[k].z > elements'[j].z
       /\ \A k, j \in GroupIdx : k # j => elements'[k].z # elements'[j].z
       /\ \A k, j \in GroupIdx :
            elements[k].z < elements[j].z => elements'[k].z < elements'[j].z]_vars

\* C27: every element a paste creates gets a z above the z of every element
\* the store held when the paste was made
PasteOnTop ==
  [][PasteStep =>
       \A k \in (Len(elements) + 1)..Len(elements') :
         \A j \in 1..Len(elements) : elements'[k].z > elements[j].z]_vars

\* a pointer move while element id is resized by one of its edge handles
EdgeResizeStep(id) ==
  /\ comp[id].resizingRef /\ comp[id].resizeDir \in {"n", "s", "e", "w"}
  /\ HasId(elements, id) /\ HasId(elements', id)
  /\ ptr'[1].down = ptr[1].down
  /\ <<ptr'[1].x, ptr'[1].y>> # <<ptr[1].x, ptr[1].y>>

\* C28: an edge-handle resize changes one axis only and keeps the opposite
\* edge where it was at resize start: 'e' and 's' leave the position alone,
\* 'w' keeps x + width and 'n' keeps y + height, for every pointer delta and
\* zoom; the resized dimension stays >= 60 (width) or >= 40 (height)
EdgeResizeKeepsFarEdge ==
  [][\A id \in Ids :
       EdgeResizeStep(id) =>
         LET c == comp[id]
             dir == c.resizeDir
             e == Find(elements', id)
         IN /\ dir \in {"e", "w"} =>
                 e.h = c.startSize.h /\ e.y = c.startPos.y /\ e.w >= MinW * FP
            /\ dir \in {"n", "s"} =>
                 e.w = c.startSize.w /\ e.x = c.startPos.x /\ e.h >= MinH * FP
            /\ dir = "e" => e.x = c.startPos.x
            /\ dir = "s" => e.y = c.startPos.y
            /\ dir = "w" => e.x + e.w = c.startPos.x + c.startSize.w
            /\ dir = "n" => e.y + e.h = c.startPos.y + c.startSize.h]_vars

\* a layout pass whose seed is in the store, eligible and not cooling down
ClusterStep ==
  /\ LayoutStep
  /\ HasId(elements, timers[1].id)
  /\ Eligible(ById(elements, timers[1].id))
  /\ ~CoolingDown(ById(elements, timers[1].id), now')

\* C29: the cluster of a layout pass contains the seed and every eligible
\* element whose centre lies within 0.9 x max(seed.width, seed.height) of the
\* seed's centre, and no eligible element outside of it overlaps, with the
\* 14-unit margin, an element inside of it; a pass whose cluster has fewer
\* than 2 members leaves the store unchanged
ClusterIsClosed ==
  [][ClusterStep =>
       LET seed == ById(elements, timers[1].id)
           cluster == Range(ClusterOf(elements, timers[1].id))
       IN /\ seed.id \in cluster
          /\ \A k \in 1..Len(elements) :
               (Eligible(elements[k]) /\ WithinRadius(elements[k], seed))
                 => elements[k].id \in cluster
          /\ \A k, j \in 1..Len(elements) :
               (elements[k].id \in cluster /\ Eligible(elements[j])
                /\ elements[j].id \notin cluster)
                 => ~Overlaps(elements[k], elements[j], ClusterMargin * FP)
          /\ Cardinality(cluster) < 2 => elements' = elements
          /\ \A i \in 1..Len(timers') :
               (timers'[i].kind = "clearAnim" /\ timers'[i].at = now' + AnimateMoveMs)
                 => timers'[i].ids = cluster]_vars

\* a pass has moved three boxes of which the third neither lay near the seed
\* nor overlapped it: the flood fill reached it through the second
ClusterChainCase ==
  /\ Len(elements) = 3
  /\ \A k \in 1..3 : elements[k].animateMove
  /\ \E i \in 1..Len(timers) : timers[i].kind = "clearAnim" /\ timers[i].ids = {1, 2, 3}

\* a layout pass for the seed at index m over two 100 x 100 media boxes on one
\* row, 20 units apart, of which the one at index c is under its cooldown
ObstacleStep(c, m) ==
  /\ LayoutStep /\ Len(elements) = 2 /\ c # m
  /\ timers[1].id = elements[m].id
  /\ FreeMedia(elements[m], now')
  /\ Eligible(elements[c]) /\ CoolingDown(elements[c], now')
  /\ \A k \in 1..2 : elements[k].w = 100 * FP /\ elements[k].h = 100 * FP
  /\ elements[1].y = elements[2].y
  /\ Abs(elements[1].x - elements[2].x) = 20 * FP

\* C30: a cluster member under its cooldown is not repositioned by the pass
\* but is an obstacle: a movable member that overlaps it by more than the
\* tolerated ratio ends the pass further away from it than it began
CooledMemberIsObstacle ==
  [][\A c, m \in 1..2 :
       ObstacleStep(c, m) =>
         /\ Len(elements') = 2
         /\ elements'[c].x = elements[c].x /\ elements'[c].y = elements[c].y
         /\ Abs(elements'[m].x - elements[c].x) > Abs(elements[m].x - elements[c].x)]_vars

\* id is a member of the cluster the armed layout pass detects
InCluster(id) ==
  /\ HasId(elements, timers[1].id)
  /\ id \in Range(ClusterOf(elements, timers[1].id))

\* C31: a layout pass changes nothing but the position and the animateMove
\* hint of members of the detected cluster: every other field of every
\* element, every element outside the cluster, the elements in the store, the
\* selection and the view stay as they were
LayoutFrame ==
  [][LayoutStep =>
       /\ Len(elements') = Len(elements)
       /\ \A k \in 1..Len(elements) :
            /\ [elements'[k] EXCEPT !.x = elements[k].x, !.y = elements[k].y,
                                    !.animateMove = elements[k].animateMove,
                                    !.obj = elements[k].obj] = elements[k]
            /\ ~InCluster(elements[k].id) => elements'[k] = elements[k]
       /\ selectedId' = selectedId /\ selectedIds' = selectedIds
       /\ view' = view]_vars

\* a pass has placed the first two boxes and left the third, an image outside
\* the cluster, and the selection alone
LayoutOutsiderCase ==
  /\ Len(elements) = 3
  /\ elements[1].animateMove /\ elements[2].animateMove
  /\ elements[3].type = "image" /\ ~elements[3].isGenerating /\ ~elements[3].animateMove
  /\ selectedId = 2 /\ selectedIds = {2}

\* a pending timer will clear the animation hint of element id
ClearPending(id) ==
  \E i \in 1..Len(timers) :
    \/ timers[i].kind = "clearAnim" /\ id \in timers[i].ids
    \/ timers[i].kind = "gridClear" /\ timers[i].id = id

\* C32: animateMove is transient: every element of the store whose hint is
\* set has a pending transition timer that clears it, so no element keeps the
\* hint after the timers have fired, whatever deletes, undos, pastes and
\* layout passes come between
AnimateMoveIsTransient ==
  \A k \in 1..Len(elements) : elements[k].animateMove => ClearPending(elements[k].id)

\* element id was spawned with grid coordinates: its placement or the end of
\* its animation is still pending
GridPending(ts, id) ==
  \E i \in 1..Len(ts) : ts[i].kind \in {"gridPlace", "gridClear"} /\ ts[i].id = id

\* the geometry of a batch, once fixed, is reused
GridGeometryKept == \A g \in Groups : gridRef[g].set => gridRef'[g] = gridRef[g]

\* a spawn with grid coordinates arms no layout pass for its element
GridSpawnArmsNoLayout ==
  \A id \in Ids :
    (GridPending(timers', id) /\ ~GridPending(timers, id)) =>
      ~\E i \in 1..Len(timers') : timers'[i].kind = "layout" /\ timers'[i].id = id

\* no layout pass moves an element of a grid batch
GridElementNotRelaxed ==
  LayoutStep =>
    \A k \in 1..Len(elements) :
      GridPending(timers, elements[k].id) =>
        /\ Len(elements') = Len(elements)
        /\ elements'[k].x = elements[k].x /\ elements'[k].y = elements[k].y

\* C33: the grid geometry of a batch is fixed by its first spawn and reused by
\* the later ones; a spawn with grid coordinates is animated to its cell and
\* relaxation is bypassed for the batch: no layout pass is armed for such an
\* element and none repositions it
GridBypassesRelaxation ==
  [][GridGeometryKept /\ GridSpawnArmsNoLayout /\ GridElementNotRelaxed]_vars

\* this step makes element id an image or video of the store that is not
\* generating: it is spawned as such, or its placeholder is filled
BecomesAvailable(id) ==
  /\ HasId(elements', id) /\ Eligible(ById(elements', id))
  /\ ~(HasId(elements, id) /\ Eligible(ById(elements, id)))

\* C34: every image or video that enters the store not generating, or stops
\* generating because its placeholder is filled, has a layout pass seeded at
\* it armed by that step, unless the spawn carries grid coordinates (stated for
\* the steps before any batch has fixed a grid)
SpawnIsLaidOut ==
  [][\A id \in Ids :
       (BecomesAvailable(id) /\ \A g \in Groups : ~gridRef'[g].set) =>
         \E i \in 1..Len(timers') : timers'[i].kind = "layout" /\ timers'[i].id = id]_vars

\* undoDelete puts its elements back: at once, or when the last cache lookup
\* of its restore has answered
UndoRestoreStep ==
  \/ /\ Len(undoStack') = Len(undoStack) - 1
     /\ finLog' = finLog /\ now' = now /\ tasks' = tasks
  \/ /\ Len(tasks') = Len(tasks) - 1
     /\ \E k \in 1..Len(tasks) : tasks[k].kind = "restore" /\ tasks' = RemoveAt(tasks, k)

\* C35: undoDelete adds to the store only elements that are not in it: never
\* the synthetic group wrapper (the ids below 0), also when the group of the
\* snapshot is empty, and never an element whose id the store still holds
UndoAddsOnlyDeleted ==
  [][UndoRestoreStep =>
       \A k \in (Len(elements) + 1)..Len(elements') :
         elements'[k].id > 0 /\ ~HasId(elements, elements'[k].id)]_vars

\* the pending expiry timers keyed by this undo id
UndoTimersOf(uid) == {j \in 1..Len(timers) : timers[j].kind = "undo" /\ timers[j].undoId = uid}
\* the snapshots on the stack that carry this undo id
SnapshotsOf(uid) == {i \in 1..Len(undoStack) : undoIdOf[undoStack[i].obj] = uid}

\* C36: the armed undo-expiry timers and the snapshots on the undo stack
\* correspond one to one: every snapshot has exactly one pending timer under
\* its undo id, and every pending timer belongs to exactly one snapshot that
\* is still on the stack
UndoTimersMatchStack ==
  /\ \A i \in 1..Len(undoStack) :
       Cardinality(UndoTimersOf(undoIdOf[undoStack[i].obj])) = 1
  /\ \A j \in 1..Len(timers) :
       timers[j].kind = "undo" => Cardinality(SnapshotsOf(timers[j].undoId)) = 1

\* C37: the selection holds no dangling id: the primary selected id, when
\* set, and every id of the selected-id set are ids of elements in the store
SelectionInStore ==
  /\ selectedId # 0 => HasId(elements, selectedId)
  /\ \A id \in selectedIds : HasId(elements, id)

\* the interaction modes that are active
ActiveModes ==
  (IF panning THEN {"pan"} ELSE {})
    \cup (IF marquee.isSelecting THEN {"marquee"} ELSE {})
    \cup (IF \E id \in Ids : comp[id].draggingRef THEN {"drag"} ELSE {})
    \cup (IF \E id \in Ids : comp[id].resizingRef THEN {"resize"} ELSE {})

\* C38: at most one interaction mode is active at any time: panning, marquee
\* selection, element dragging and element resizing exclude one another, also
\* when a second pointer goes down before the first is released
OneModeAtATime == Cardinality(ActiveModes) <= 1

\* the store holds an element with this id that is generating
Generating(id) == \E k \in 1..Len(elements) : elements[k].id = id /\ elements[k].isGenerating

\* C39: every generating element of the store eventually stops generating or
\* leaves the store, given that the collaborator answers every placeholder it
\* created, also after copy and paste, delete and undo of placeholders
GeneratingEnds == \A id \in Ids : Generating(id) ~> ~Generating(id)
============================================================================
